---- MODULE Spec2Model ----
(***************************************************************************)
(* Model of liberty-media-telegram-bot: the bounded job queue and its      *)
(* single worker thread (queue_processor.py), the handlers of the event    *)
(* loop that feed it (bot_handler.py), the in-memory session store and the *)
(* search cache of the extraction collaborator (yt_dlp_processor.py).      *)
(*                                                                         *)
(* Two threads exist: the main thread, which runs start()/stop() and the   *)
(* handlers one at a time, and the worker thread.  A handler is one action *)
(* up to the point where it blocks or where the worker can be observed to  *)
(* interleave (the blocking queue.put, the search run by get_formats, the  *)
(* message sent after the put).                                            *)
(*                                                                         *)
(* start() and stop() are public methods: the main thread may call them    *)
(* and run handlers in any order, which includes the order of start_bot    *)
(* (start, handlers while polling, stop).                                  *)
(***************************************************************************)
EXTENDS Integers, Sequences, FiniteSets, TLC

\* ------------------------------------------------------------------ bounds
queue_size == 2
MaxJobs == 3
MaxMsg == 2

Chats == {1, 2}
MsgIds == 1..MaxMsg

\* ------------------------------------------------- python values and dicts
\* A node of the nested dictionary: None, a value, or a dict of nodes.
NoneV == [kind |-> "none"]
Val(x) == [kind |-> "val", val |-> x]
IntV(i) == [kind |-> "int", val |-> i]
\* a float, kept in thousandths
FloatV(t) == [kind |-> "float", val |-> t]
EmptyDict == [kind |-> "dict", kv |-> [k \in {} |-> NoneV]]

IsNone(n) == n.kind = "none"
IsDict(n) == n.kind = "dict"
HasKey(n, key) == IsDict(n) /\ key \in DOMAIN n.kv

\* data_temp[key] = node
DictPut(n, key, node) ==
    [kind |-> "dict",
     kv   |-> [k \in (DOMAIN n.kv) \cup {key} |-> IF k = key THEN node ELSE n.kv[k]]]

\* the loop of _database_get_data over the keys of args
RECURSIVE NodeGet(_, _)
NodeGet(n, path) ==
    IF path = <<>> THEN n
    ELSE IF IsNone(n) \/ ~HasKey(n, Head(path)) THEN NoneV
    ELSE NodeGet(n.kv[Head(path)], Tail(path))

RECURSIVE NodeSet_fresh(_, _, _)
NodeSet_fresh(n, path, value) ==
    IF Len(path) = 1 THEN DictPut(n, Head(path), value)
    ELSE DictPut(n, Head(path), NodeSet_fresh(EmptyDict, Tail(path), value))

\* the loop of _database_set_data: missing or None intermediate nodes become {}
RECURSIVE NodeSet(_, _, _)
NodeSet(n, path, value) ==
    IF Len(path) = 1 THEN DictPut(n, Head(path), value)
    ELSE LET child == IF ~HasKey(n, Head(path)) \/ IsNone(n.kv[Head(path)])
                      THEN EmptyDict
                      ELSE n.kv[Head(path)]
         IN  DictPut(n, Head(path), NodeSet(child, Tail(path), value))

\* _temp_database after _database_get_data(chat_id, *args): the chat is created
database_touch(db, chat_id) ==
    IF db[chat_id].kind = "absent" THEN [db EXCEPT ![chat_id] = EmptyDict] ELSE db

database_get_data(db, chat_id, path) == NodeGet(database_touch(db, chat_id)[chat_id], path)

\* _database_set_data(chat_id, *path, value)
database_set_data(db, chat_id, path, value) ==
    LET d == database_touch(db, chat_id)
    IN  [d EXCEPT ![chat_id] = NodeSet(d[chat_id], path, value)]

\* ------------------------------------------------------------ text helpers
\* str.strip() on a sequence of one-character strings
RECURSIVE LStrip(_)
LStrip(s) == IF s # <<>> /\ Head(s) = " " THEN LStrip(Tail(s)) ELSE s
RECURSIVE RStrip(_)
RStrip(s) == IF s # <<>> /\ s[Len(s)] = " " THEN RStrip(SubSeq(s, 1, Len(s) - 1)) ELSE s
Strip(s) == RStrip(LStrip(s))

\* position of the first sep in s, 0 if none
RECURSIVE FirstIndex(_, _, _)
FirstIndex(s, sep, i) ==
    IF i > Len(s) THEN 0 ELSE IF s[i] = sep THEN i ELSE FirstIndex(s, sep, i + 1)

\* request.split("-")[0] and "-".join(request.split("-")[1:])
SplitHead(s, sep) ==
    LET i == FirstIndex(s, sep, 1) IN IF i = 0 THEN s ELSE SubSeq(s, 1, i - 1)
SplitRest(s, sep) ==
    LET i == FirstIndex(s, sep, 1) IN IF i = 0 THEN <<>> ELSE SubSeq(s, i + 1, Len(s))

\* ------------------------------------------------------------- the catalog
\* What the external sites hold: the raw information dictionaries that
\* yt-dlp returns.  "a" has only a title and a channel, "b" carries track and
\* artist metadata.
Media ==
    { [extractor |-> "youtube",    id |-> "a", fulltitle |-> "F - T", channel |-> "F",
       track |-> NoneV,    artist |-> NoneV],
      [extractor |-> "soundcloud", id |-> "b", fulltitle |-> "R",     channel |-> "K",
       track |-> Val("S"), artist |-> Val("U")] }

Extractors == {m.extractor : m \in Media}
MediaIds == {m.id : m \in Media}

\* results of one search: the sequences of catalog entries a query can give
SearchOutcomes == {<<>>} \cup {<<m>> : m \in Media}

\* --------------------------------------------------------- number <-> text
\* f"{n}" and int(token) over the integers a payload can carry
IntDomain == -1..(MaxMsg + 1)
IsInt(tok) == \E i \in IntDomain : ToString(i) = tok
ParseInt(tok) == CHOOSE i \in IntDomain : ToString(i) = tok

\* floats are kept in thousandths.  f"{x:.2f}" rounds to the nearest
\* hundredth (no value of the model lies halfway between two hundredths)
Hundredths(t) == IF t >= 0 THEN (t + 5) \div 10 ELSE -((5 - t) \div 10)
FmtFloat_trunc(t) ==
    LET h == t \div 10
    IN  ToString(h \div 100) \o "." \o (IF h % 100 < 10 THEN "0" ELSE "") \o ToString(h % 100)

FmtFloat(t) ==
    LET h == Hundredths(t)
        a == IF h < 0 THEN -h ELSE h
    IN  (IF h < 0 THEN "-" ELSE "") \o ToString(a \div 100) \o "."
        \o (IF a % 100 < 10 THEN "0" ELSE "") \o ToString(a % 100)

\* float(token) over the floats a payload of the model can carry
FloatDomain == {-1000, 0, 128000, 129480}
IsFloat(tok) == \E t \in FloatDomain : FmtFloat(t) = tok
ParseFloat(tok) == CHOOSE t \in FloatDomain : FmtFloat(t) = tok

\* try: bitrate = float(tok); if bitrate < 0: bitrate = None / except: bitrate = None
ParseBitrate(tok) ==
    IF ~IsFloat(tok) THEN NoneV
    ELSE IF ParseFloat(tok) < 0 THEN NoneV ELSE FloatV(ParseFloat(tok))

\* -------------------------------------------------------------------- jobs
\* the None that stop() puts into the queue
Sentinel == [action |-> "None"]
NoJob == [action |-> "nojob"]

SearchJob_noedit(chat_id, edit_message_id, request) ==
    [action |-> "search", chat_id |-> chat_id, edit_message_id |-> NoneV,
     request |-> request, seq |-> 0]

SearchJob(chat_id, edit_message_id, request) ==
    [action |-> "search", chat_id |-> chat_id, edit_message_id |-> edit_message_id,
     request |-> request, seq |-> 0]

DownloadJob(chat_id, edit_message_id, extractor, id_, format_id, is_video, bitrate, author, title) ==
    [action |-> "download", chat_id |-> chat_id, edit_message_id |-> edit_message_id,
     extractor |-> extractor, id |-> id_, format_id |-> format_id, is_video |-> is_video,
     bitrate |-> bitrate, author |-> author, title |-> title, seq |-> 0]

\* ---------------------------------------------------------------- messages
\* One call of send_safe / send_document: the chat, the message edited (None
\* for a new message), the text as a list of catalog keys and values, and
\* the callback_data of the buttons in order.
Msg(chat_id, edit_message_id, text, markup) ==
    [chat_id |-> chat_id, edit_message_id |-> edit_message_id, text |-> text, markup |-> markup]
NoMsg == [chat_id |-> 0, edit_message_id |-> NoneV, text |-> <<>>, markup |-> <<>>]

VARIABLES
    queue,                  \* QueueProcessor.queue: jobs and sentinels, oldest first
    queue_listener_thread,  \* "none" or "thread": the Thread object start() made last
    running,                \* number of threads inside _queue_handler_loop
    wpc,                    \* position of the worker thread in the loop, "ended" after it
    data,                   \* the job the worker dequeued last
    filepath,               \* whether download() returned a path
    error_text,             \* str(e) of a failed download
    unhandled,              \* an exception is travelling to the outer except
    failure,                \* what failed in the current job ("none" if nothing)
    main,                   \* position of the main thread (event loop, start, stop)
    pend,                   \* the job a handler is about to put
    temp_database,          \* BotHandler._temp_database
    search_cache,           \* YTDlPProcessor._search_cache, as catalog keys
    wlast,                  \* the last message the worker sent
    hlast,                  \* the last message a handler sent
    nextSeq,                \* number of jobs put so far, plus one
    nextMsg,                \* next message id the transport hands out
    log,                    \* seq numbers of the jobs in the order dequeued
    done,                   \* seq numbers of the jobs whose handling ended
    cleanups,               \* per job: how often cleanup() ran for it
    stopped                 \* stop() returned after joining and no start() since

vars == <<queue, queue_listener_thread, running, wpc, data, filepath, error_text, unhandled, failure,
          main, pend, temp_database, search_cache, wlast, hlast, nextSeq, nextMsg,
          log, done, cleanups, stopped>>

workerVars == <<running, wpc, data, filepath, error_text, unhandled, failure, wlast, log, done, cleanups>>
mainVars == <<main, pend, hlast, nextSeq, nextMsg, stopped>>

Absent == [kind |-> "absent"]

Init ==
    /\ queue = <<>>
    /\ queue_listener_thread = "none"
    /\ running = 0
    /\ wpc = "none"
    /\ data = NoJob
    /\ filepath = FALSE
    /\ error_text = NoneV
    /\ unhandled = FALSE
    /\ failure = "none"
    /\ main = "idle"
    /\ pend = NoJob
    /\ temp_database = [c \in Chats |-> Absent]
    /\ search_cache = {}
    /\ wlast = NoMsg
    /\ hlast = NoMsg
    /\ nextSeq = 1
    /\ nextMsg = 1
    /\ log = <<>>
    /\ done = {}
    /\ cleanups = [j \in 1..MaxJobs |-> 0]
    /\ stopped = FALSE

\* ------------------------------------------------------------ the queue
\* a capacity check that is off by one
full_off_by_one(q) == Len(q) > queue_size
\* queue.Queue.full()
full(q) == Len(q) >= queue_size

\* a queue that hands out the newest item first
get_lifo(q) == [item |-> q[Len(q)], rest |-> SubSeq(q, 1, Len(q) - 1)]
\* a get that empties the queue
get_clear(q) == [item |-> Head(q), rest |-> <<>>]
\* queue.Queue.get(block=True): the oldest item and what stays behind
get(q) == [item |-> Head(q), rest |-> Tail(q)]

\* queue.Queue.put(item), enabled (not blocked) only when there is room
put(q, item) == Append(q, item)
can_put(q) == Len(q) < queue_size

\* ------------------------------------------------------- python formatting
\* f"{x}" of a value that may be None
PyStr(n) == IF IsNone(n) THEN "None" ELSE IF n.kind = "int" THEN ToString(n.val) ELSE n.val

\* truthiness of an optional number or string
Truthy(n) ==
    CASE IsNone(n) -> FALSE
      [] n.kind \in {"int", "float"} -> n.val # 0
      [] OTHER -> n.val # ""

\* f"fmt|{data['edit_message_id']}|{data['extractor']}|{data['id']}"
BackToFormats(edit_message_id, extractor, id_) ==
    <<"fmt", PyStr(edit_message_id), PyStr(extractor), PyStr(id_)>>

\* ------------------------------------------------------- the worker thread
\* the transcript of a search: a header whenever the extractor changes, then
\* the numbered result
RECURSIVE Transcript_once(_, _, _)
Transcript_once(results, i, extractor_name_temp) ==
    IF i > Len(results) THEN <<>>
    ELSE (IF \A j \in 1..(i - 1) : results[j].extractor # results[i].extractor
          THEN <<"header:" \o results[i].extractor>> ELSE <<>>)
         \o <<"result:" \o ToString(i) \o ":" \o results[i].id>>
         \o Transcript_once(results, i + 1, results[i].extractor)
RECURSIVE Transcript(_, _, _)
Transcript(results, i, extractor_name_temp) ==
    IF i > Len(results) THEN <<>>
    ELSE (IF results[i].extractor # extractor_name_temp
          THEN <<"header:" \o results[i].extractor>> ELSE <<>>)
         \o <<"result:" \o ToString(i) \o ":" \o results[i].id>>
         \o Transcript(results, i + 1, results[i].extractor)

SearchText(results) ==
    IF Transcript(results, 1, "") # <<>>
    THEN Transcript(results, 1, "") \o <<"search_result_suffix">>
    ELSE <<"search_no_results">>

SearchButtons_reversed(edit_message_id, results) ==
    [i \in 1..Len(results) |->
        BackToFormats(edit_message_id, Val(results[Len(results) + 1 - i].extractor),
                      Val(results[Len(results) + 1 - i].id))]
SearchButtons(edit_message_id, results) ==
    [i \in 1..Len(results) |-> BackToFormats(edit_message_id, Val(results[i].extractor), Val(results[i].id))]

\* lines 162-172: the three values saved for the back button
StoreSearchResult(db, job, results) ==
    LET d1 == database_set_data(db, job.chat_id, <<"search_result", "text">>, Val(SearchText(results)))
        d2 == database_set_data(d1, job.chat_id, <<"search_result", "markup">>,
                  IF Len(results) # 0 THEN Val(SearchButtons(job.edit_message_id, results)) ELSE NoneV)
    IN  database_set_data(d2, job.chat_id, <<"search_result", "edit_message_id">>, job.edit_message_id)

\* does the loop leave (break) on this item
IsStop(item) == item = Sentinel

\* data = self.queue.get(block=True); if data is None: break
WGet ==
    /\ wpc = "get"
    /\ queue # <<>>
    /\ queue' = get(queue).rest
    /\ IF IsStop(get(queue).item)
       THEN /\ wpc' = "ended"
            /\ running' = running - 1
            /\ UNCHANGED <<data, log>>
       ELSE /\ data' = get(queue).item
            /\ wpc' = get(queue).item.action
            /\ log' = Append(log, [seq |-> get(queue).item.seq, action |-> get(queue).item.action,
                                    chat_id |-> get(queue).item.chat_id])
            /\ UNCHANGED running
    /\ UNCHANGED <<queue_listener_thread, filepath, error_text, failure, unhandled, wlast, done,
                   cleanups, temp_database, search_cache>>
    /\ UNCHANGED mainVars

\* lines 114-184: search() returns (it swallows its own errors and returns
\* the results it has so far), the result is stored and the target message
\* is edited
WSearch ==
    /\ wpc = "search"
    /\ \E results \in SearchOutcomes, raised \in BOOLEAN :
        /\ failure' = IF raised THEN "search" ELSE "none"
        /\ search_cache' = search_cache \cup {results[i] : i \in 1..Len(results)}
        /\ temp_database' = StoreSearchResult(temp_database, data, results)
        /\ wlast' = Msg(data.chat_id, data.edit_message_id,
                        database_get_data(temp_database', data.chat_id, <<"search_result", "text">>).val,
                        LET m == database_get_data(temp_database', data.chat_id, <<"search_result", "markup">>)
                        IN  IF IsNone(m) THEN <<>> ELSE m.val)
    /\ wpc' = "loop"
    /\ done' = done \cup {data.seq}
    /\ UNCHANGED <<queue, queue_listener_thread, running, data, filepath, error_text, unhandled, log, cleanups>>
    /\ UNCHANGED mainVars

\* what yt_dlp_processor.download() can do: return a path, return None
\* (no extractor produced a file), raise, raise after a timeout
DownloadOutcomes == {"ok", "nofile", "error", "timeout"}

\* lines 190-214
WDownload ==
    /\ wpc = "download"
    /\ \E o \in DownloadOutcomes :
        /\ filepath' = (o = "ok")
        /\ error_text' = IF o \in {"error", "timeout"} THEN Val(o) ELSE NoneV
        /\ failure' = IF o = "ok" THEN "none" ELSE IF o = "timeout" THEN "timeout" ELSE "download"
        /\ wpc' = IF o = "ok" THEN "send_file" ELSE "final"
    /\ UNCHANGED <<queue, queue_listener_thread, running, data, unhandled, wlast, log, done, cleanups,
                   temp_database, search_cache>>
    /\ UNCHANGED mainVars

\* _progress_callback with a fresh timer: an edit of the target, if there is one
ProgressEdit(job, stage, last) ==
    IF IsNone(job.edit_message_id) \/ job.edit_message_id.val < 0
    THEN last
    ELSE Msg(job.chat_id, job.edit_message_id, <<"download_progress", stage>>, <<>>)

\* where send_document leaves the worker: on to the final message, or into
\* the finally clause with the exception pending
AfterSendFile_nofinally(sent) == IF sent THEN "final" ELSE "except"
AfterSendFile(sent) == IF sent THEN "final" ELSE "cleanup"

\* lines 217-233: the progress edit, then send_document, which may raise
WSendFile ==
    /\ wpc = "send_file"
    /\ wlast' = ProgressEdit(data, "Sending file", wlast)
    /\ \E sent \in BOOLEAN :
        /\ unhandled' = ~sent
        /\ failure' = IF sent THEN "none" ELSE "send_file"
        /\ wpc' = AfterSendFile(sent)
    /\ UNCHANGED <<queue, queue_listener_thread, running, data, filepath, error_text, log, done, cleanups,
                   temp_database, search_cache>>
    /\ UNCHANGED mainVars

\* lines 233-259: the final message with its back button
FinalMessage(job, path, err) ==
    Msg(job.chat_id, job.edit_message_id,
        IF path THEN <<"download_finished">> ELSE <<"download_error", PyStr(err)>>,
        <<BackToFormats(job.edit_message_id, job.extractor, job.id)>>)

WFinal ==
    /\ wpc = "final"
    /\ wlast' = FinalMessage(data, filepath, error_text)
    /\ wpc' = "cleanup"
    /\ UNCHANGED <<queue, queue_listener_thread, running, data, filepath, error_text, unhandled, failure,
                   log, done, cleanups, temp_database, search_cache>>
    /\ UNCHANGED mainVars

\* where the worker goes when the try block of a download is left
AfterTry_nocatch(pending_exception) == IF pending_exception THEN "ended" ELSE "loop"
AfterTry(pending_exception) == IF pending_exception THEN "except" ELSE "loop"

\* lines 262-263: finally: self.yt_dlp_processor.cleanup()
WCleanup ==
    /\ wpc = "cleanup"
    /\ cleanups' = [cleanups EXCEPT ![data.seq] = @ + 1]
    /\ wpc' = AfterTry(unhandled)
    /\ done' = IF unhandled THEN done ELSE done \cup {data.seq}
    /\ UNCHANGED <<queue, queue_listener_thread, running, data, filepath, error_text, unhandled, failure,
                   wlast, log, temp_database, search_cache>>
    /\ UNCHANGED mainVars

\* lines 266-275: the message sent for an exception that reached the loop
UnhandledMessage(job) ==
    Msg(job.chat_id, job.edit_message_id, <<job.action \o "_error", "unhandled">>, <<>>)

\* send_safe swallows a failure of the transport: wlast is the message handed
\* to it, failure records that it did not arrive
WExcept ==
    /\ wpc = "except"
    /\ wlast' = UnhandledMessage(data)
    /\ \E delivered \in BOOLEAN : failure' = IF delivered THEN failure ELSE "report"
    /\ unhandled' = FALSE
    /\ wpc' = "loop"
    /\ done' = done \cup {data.seq}
    /\ UNCHANGED <<queue, queue_listener_thread, running, data, filepath, error_text,
                   log, cleanups, temp_database, search_cache>>
    /\ UNCHANGED mainVars

\* the back edge of "while True": the job's handling has ended; its locals
\* are dead from here on and are forgotten
WLoop ==
    /\ wpc = "loop"
    /\ wpc' = "get"
    /\ data' = NoJob
    /\ filepath' = FALSE
    /\ error_text' = NoneV
    /\ failure' = "none"
    /\ wlast' = NoMsg
    /\ UNCHANGED <<queue, queue_listener_thread, running, unhandled, log, done, cleanups,
                   temp_database, search_cache>>
    /\ UNCHANGED mainVars

\* --------------------------------------------------------- start and stop
\* start() without the is_alive() check
is_alive_unchecked == FALSE
is_alive == queue_listener_thread = "thread" /\ wpc # "ended"

\* QueueProcessor.start()
Start ==
    /\ main = "idle"
    /\ IF is_alive
       THEN UNCHANGED <<queue_listener_thread, running, wpc, stopped>>
       ELSE /\ queue_listener_thread' = "thread"
            /\ running' = running + 1
            /\ wpc' = "get"
            /\ stopped' = FALSE
    /\ UNCHANGED <<queue, data, filepath, error_text, unhandled, failure, main, pend, temp_database,
                   search_cache, wlast, hlast, nextSeq, nextMsg, log, done, cleanups>>

\* QueueProcessor.stop() up to the put: returns at once without a live worker
Stop ==
    /\ main = "idle"
    /\ main' = IF is_alive THEN "stop_put" ELSE "idle"
    /\ UNCHANGED <<queue, queue_listener_thread, temp_database, search_cache, pend, hlast,
                   nextSeq, nextMsg, stopped>>
    /\ UNCHANGED workerVars

\* self.queue.put(None), blocking while the queue is full
StopPut ==
    /\ main = "stop_put"
    /\ can_put(queue)
    /\ queue' = put(queue, Sentinel)
    /\ main' = "stop_join"
    /\ UNCHANGED <<queue_listener_thread, temp_database, search_cache, pend, hlast,
                   nextSeq, nextMsg, stopped>>
    /\ UNCHANGED workerVars

\* self._queue_listener_thread.join() returns once the thread has ended
\* stop() that does not wait for the thread
joined_nowait == TRUE
joined == wpc = "ended"

StopJoin ==
    /\ main = "stop_join"
    /\ joined
    /\ main' = "idle"
    /\ stopped' = TRUE
    /\ UNCHANGED <<queue, queue_listener_thread, temp_database, search_cache, pend, hlast,
                   nextSeq, nextMsg>>
    /\ UNCHANGED workerVars

\* ------------------------------------------------ the extraction collaborator
\* _cache_get(extractor, id_): the cached information dictionary, if any
cache_has(cache, extractor, id_) == \E m \in cache : m.extractor = extractor /\ m.id = id_
cache_get(cache, extractor, id_) == CHOOSE m \in cache : m.extractor = extractor /\ m.id = id_

\* fix_id() for an item that is not in the cache: None ("") for the sites
\* whose ids cannot be turned into a link, a link or the id itself otherwise
fix_id(extractor, id_) ==
    IF extractor = "" THEN NoneV
    ELSE IF extractor \in {"soundcloud", "bandcamp"} THEN NoneV
    ELSE IF extractor = "vk" THEN Val("https://vk.com/vkvideo?z=video" \o id_)
    ELSE IF extractor = "pornhub" THEN Val("https://rt.pornhub.com/view_video.php?viewkey=" \o id_)
    ELSE Val(id_)

\* get_formats(): title, channel and from_metadata of an information dictionary
InfoTitle(info) ==
    IF ~IsNone(info.track) /\ ~IsNone(info.artist) THEN info.track.val ELSE info.fulltitle
InfoChannel_uploader(info) == info.channel
InfoChannel(info) ==
    IF ~IsNone(info.track) /\ ~IsNone(info.artist) THEN info.artist.val ELSE info.channel
from_metadata(info) == ~IsNone(info.track) /\ ~IsNone(info.artist)

\* get_formats(): the stream candidates of a catalog item (the best audio
\* stream, 128 kbps for "a" and 129.478 kbps for "b", and one video stream
\* that needs the audio stream added)
audio_streams(info) == <<[id |-> "f1", bitrate |-> IF info.id = "a" THEN 128000 ELSE 129478]>>
video_streams(info) == <<[id |-> "v1+f1"]>>

\* ------------------------------------------------------ the button payloads
\* callback_data of a stream button of the format screen (audio: "rnm" or
\* "dwn", is video 0, the bitrate with two decimals; video: "dwn", is video
\* 1, no bitrate)
AudioButton(action, edit_message_id, extractor, id_, format_id, bitrate) ==
    <<action, ToString(edit_message_id), extractor, id_, format_id, "0", FmtFloat(bitrate)>>
VideoButton(edit_message_id, extractor, id_, format_id) ==
    <<"dwn", ToString(edit_message_id), extractor, id_, format_id, "1", "">>

\* callback_data of the button of guess i of the rename screen
GuessButton(edit_message_id, extractor, id_, format_id, is_video, i, bitrate) ==
    <<"rdn", ToString(edit_message_id), extractor, id_, format_id,
      IF is_video THEN "1" ELSE "0", ToString(i), FmtFloat(bitrate)>>

\* callback_data of the back button to the search screen
SearchBackButton(edit_message_id) == <<"sch", ToString(edit_message_id)>>

\* arguments[3] == "1" or arguments[3].lower() == "t"
DecodeIsVideo(tok) == tok = "1" \/ tok \in {"t", "T"}

\* a check of the message id that lets every payload through
IsStale_never(edit_message_id, message_id) == FALSE
\* query_callback, line 205: the payload does not belong to the message
IsStale(edit_message_id, message_id) == edit_message_id < 0 \/ edit_message_id # message_id

\* guess_track_title() on the titles of the catalog
guess_track_title(title, channel) ==
    IF title = "F - T" /\ channel = "F"
    THEN << <<"F", "T">>, <<"F", "F - T">>, <<"Unknown", "F - T">> >>
    ELSE << <<channel, title>>, <<"Unknown", title>> >>

\* ------------------------------------------------------------ the handlers
\* What a handler leaves behind: the session store, the last message it
\* sent, where the main thread stands and the handler's pending locals.
Result(db, msg, pc, locals) == [db |-> db, msg |-> msg, main |-> pc, pend |-> locals]

\* the "sch" back button, present when the cached search belongs to the message
SchButton(db, chat_id, edit_message_id) ==
    IF ~IsNone(database_get_data(db, chat_id, <<"search_result">>))
       /\ database_get_data(db, chat_id, <<"search_result", "edit_message_id">>) = IntV(edit_message_id)
    THEN <<SearchBackButton(edit_message_id)>>
    ELSE <<>>

\* markup_fmt, lines 318-343: get_formats raised
FmtError(db, chat_id, edit_message_id, expired) ==
    Result(database_touch(db, chat_id),
           Msg(chat_id, IntV(edit_message_id),
               IF expired THEN <<"error_expired">> ELSE <<"error_common">>,
               SchButton(db, chat_id, edit_message_id)),
           "idle", NoJob)

\* markup_fmt, lines 345-415: stage the rename defaults and render the buttons
FmtRender_nostage(db, chat_id, edit_message_id, extractor, id_, info) ==
    Result(database_touch(db, chat_id),
           Msg(chat_id, IntV(edit_message_id), <<"format_select">>,
               SchButton(db, chat_id, edit_message_id)),
           "idle", NoJob)

FmtRender(db, chat_id, edit_message_id, extractor, id_, info) ==
    LET d1 == database_set_data(db, chat_id, <<"rename", "edit_message_id">>, IntV(edit_message_id))
        d2 == database_set_data(d1, chat_id, <<"rename", "title">>, Val(InfoTitle(info)))
        d3 == database_set_data(d2, chat_id, <<"rename", "channel">>, Val(InfoChannel(info)))
        d4 == database_set_data(d3, chat_id, <<"rename", "names">>, Val(<<>>))
        d5 == database_set_data(d4, chat_id, <<"rename", "renamed">>, Val(FALSE))
        d6 == database_set_data(d5, chat_id, <<"rename", "final", "title">>,
                  IF from_metadata(info) THEN Val(InfoTitle(info)) ELSE NoneV)
        d7 == database_set_data(d6, chat_id, <<"rename", "final", "author">>,
                  IF from_metadata(info) THEN Val(InfoChannel(info)) ELSE NoneV)
        action == IF from_metadata(info) THEN "dwn" ELSE "rnm"
        audio == [i \in 1..Len(audio_streams(info)) |->
                    AudioButton(action, edit_message_id, extractor, id_,
                                audio_streams(info)[i].id, audio_streams(info)[i].bitrate)]
        video == [i \in 1..Len(video_streams(info)) |->
                    VideoButton(edit_message_id, extractor, id_, video_streams(info)[i].id)]
    IN  Result(d7,
               Msg(chat_id, IntV(edit_message_id),
                   IF Len(audio_streams(info)) = 0 /\ Len(video_streams(info)) = 0
                   THEN <<"format_no_streams">> ELSE <<"format_select">>,
                   audio \o video \o SchButton(d7, chat_id, edit_message_id)),
               "idle", NoJob)

\* markup_fmt up to the point where get_formats has to search
markup_fmt(db, cache, chat_id, edit_message_id, extractor, id_) ==
    IF cache_has(cache, extractor, id_)
    THEN FmtRender(db, chat_id, edit_message_id, extractor, id_, cache_get(cache, extractor, id_))
    ELSE IF IsNone(fix_id(extractor, id_))
    THEN FmtError(db, chat_id, edit_message_id, TRUE)
    ELSE Result(db, NoMsg, "fmt_search",
                [action |-> "fmt", chat_id |-> chat_id, edit_message_id |-> edit_message_id,
                 extractor |-> extractor, id |-> id_, query |-> fix_id(extractor, id_).val])

\* markup_rnm
markup_rnm(db, chat_id, edit_message_id, extractor, id_, format_id, is_video, bitrate) ==
    IF IsNone(database_get_data(db, chat_id, <<"rename">>))
    THEN Result(database_touch(db, chat_id), Msg(chat_id, NoneV, <<"error_expired">>, <<>>), "idle", NoJob)
    ELSE
    LET rate == IF ~Truthy(bitrate) THEN FloatV(0) ELSE bitrate
        t == database_get_data(db, chat_id, <<"rename", "title">>)
        c == database_get_data(db, chat_id, <<"rename", "channel">>)
        title == IF Truthy(t) THEN t.val ELSE "Untitled"
        channel == IF Truthy(c) THEN c.val ELSE "Unknown"
        guessed_names == guess_track_title(title, channel)
        buttons == [i \in 1..Len(guessed_names) |->
                      GuessButton(edit_message_id, extractor, id_, format_id, is_video, i - 1, rate.val)]
        d1 == database_set_data(db, chat_id, <<"rename", "names">>, Val(guessed_names))
        d2 == database_set_data(d1, chat_id, <<"rename", "callback", "edit_message_id">>, IntV(edit_message_id))
        d3 == database_set_data(d2, chat_id, <<"rename", "callback", "extractor">>, Val(extractor))
        d4 == database_set_data(d3, chat_id, <<"rename", "callback", "id">>, Val(id_))
        d5 == database_set_data(d4, chat_id, <<"rename", "callback", "format_id">>, Val(format_id))
        d6 == database_set_data(d5, chat_id, <<"rename", "callback", "bitrate">>, rate)
        d7 == database_set_data(d6, chat_id, <<"rename", "renamed">>, Val(FALSE))
    IN  Result(d7,
               Msg(chat_id, IntV(edit_message_id), <<"rename_audio">>,
                   buttons \o <<BackToFormats(IntV(edit_message_id), Val(extractor), Val(id_))>>),
               "idle", NoJob)

\* markup_dwn without the capacity check
markup_dwn_nocheck(db, q, last, chat_id, edit_message_id, extractor, id_, format_id, is_video, bitrate) ==
    Result(database_set_data(db, chat_id, <<"rename">>, NoneV),
           last, "dwn_put",
           DownloadJob(chat_id, edit_message_id, extractor, id_, format_id, is_video, bitrate,
                       database_get_data(db, chat_id, <<"rename", "final", "author">>),
                       database_get_data(db, chat_id, <<"rename", "final", "title">>)))

markup_dwn_clear_first(db, q, last, chat_id, edit_message_id, extractor, id_, format_id, is_video, bitrate) ==
    IF full(q)
    THEN Result(database_set_data(db, chat_id, <<"rename">>, NoneV),
                Msg(chat_id, edit_message_id, <<"error_queue_full">>,
                    IF Truthy(edit_message_id)
                    THEN <<BackToFormats(edit_message_id, extractor, id_)>> ELSE <<>>),
                "idle", NoJob)
    ELSE Result(database_set_data(db, chat_id, <<"rename">>, NoneV),
                last, "dwn_put",
                DownloadJob(chat_id, edit_message_id, extractor, id_, format_id, is_video, bitrate,
                            database_get_data(db, chat_id, <<"rename", "final", "author">>),
                            database_get_data(db, chat_id, <<"rename", "final", "title">>)))

markup_dwn_keep(db, q, last, chat_id, edit_message_id, extractor, id_, format_id, is_video, bitrate) ==
    IF full(q)
    THEN Result(db,
                Msg(chat_id, edit_message_id, <<"error_queue_full">>,
                    IF Truthy(edit_message_id)
                    THEN <<BackToFormats(edit_message_id, extractor, id_)>> ELSE <<>>),
                "idle", NoJob)
    ELSE Result(db, last, "dwn_put",
                DownloadJob(chat_id, edit_message_id, extractor, id_, format_id, is_video, bitrate,
                            database_get_data(db, chat_id, <<"rename", "final", "author">>),
                            database_get_data(db, chat_id, <<"rename", "final", "title">>)))

\* markup_dwn up to the put: the arguments may be None when they come from
\* the session store
markup_dwn(db, q, last, chat_id, edit_message_id, extractor, id_, format_id, is_video, bitrate) ==
    IF full(q)
    THEN Result(db,
                Msg(chat_id, edit_message_id, <<"error_queue_full">>,
                    IF Truthy(edit_message_id)
                    THEN <<BackToFormats(edit_message_id, extractor, id_)>> ELSE <<>>),
                "idle", NoJob)
    ELSE Result(database_set_data(db, chat_id, <<"rename">>, NoneV),
                last, "dwn_put",
                DownloadJob(chat_id, edit_message_id, extractor, id_, format_id, is_video, bitrate,
                            database_get_data(db, chat_id, <<"rename", "final", "author">>),
                            database_get_data(db, chat_id, <<"rename", "final", "title">>)))

\* markup_sch
markup_sch(db, chat_id, edit_message_id) ==
    LET text == database_get_data(db, chat_id, <<"search_result", "text">>)
        markup == database_get_data(db, chat_id, <<"search_result", "markup">>)
        eid == database_get_data(db, chat_id, <<"search_result", "edit_message_id">>)
    IN  IF ~IsNone(text) /\ text.val # <<>> /\ ~IsNone(eid) /\ eid.val >= 0 /\ eid.val = edit_message_id
        THEN Result(database_touch(db, chat_id),
                    Msg(chat_id, IntV(edit_message_id), text.val,
                        IF IsNone(markup) THEN <<>> ELSE markup.val),
                    "idle", NoJob)
        ELSE Result(database_touch(db, chat_id),
                    Msg(chat_id, NoneV, <<"error_expired">>, <<>>), "idle", NoJob)

\* the except branch of query_callback
CallbackError(db, chat_id) == Result(db, Msg(chat_id, NoneV, <<"error_common">>, <<>>), "idle", NoJob)

\* names[name_index] with python's negative indices; <<>> stands for IndexError
PyIndexOk(seq, i) == IF i >= 0 THEN i < Len(seq) ELSE -i <= Len(seq)
PyIndex(seq, i) == IF i >= 0 THEN seq[i + 1] ELSE seq[Len(seq) + i + 1]

\* query_callback, lines 251-272
callback_rdn(db, q, last, chat_id, edit_message_id, arguments) ==
    IF Len(arguments) < 6 \/ ~IsInt(arguments[5]) THEN CallbackError(db, chat_id)
    ELSE
    LET is_video == DecodeIsVideo(arguments[4])
        name_index == ParseInt(arguments[5])
        bitrate == ParseBitrate(arguments[6])
        names == database_get_data(db, chat_id, <<"rename", "names">>)
        d0 == database_touch(db, chat_id)
    IN  IF name_index >= 0 /\ name_index >= (IF IsNone(names) THEN 0 ELSE Len(names.val))
        THEN CallbackError(d0, chat_id)
        ELSE IF IsNone(names) \/ ~PyIndexOk(names.val, name_index)
        THEN CallbackError(d0, chat_id)
        ELSE LET pair == PyIndex(names.val, name_index)
                 d1 == database_set_data(d0, chat_id, <<"rename", "final", "author">>, Val(pair[1]))
                 d2 == database_set_data(d1, chat_id, <<"rename", "final", "title">>, Val(pair[2]))
             IN  markup_dwn(d2, q, last, chat_id, IntV(edit_message_id), Val(arguments[1]),
                            Val(arguments[2]), Val(arguments[3]), is_video, bitrate)

\* query_callback, lines 226-246
callback_dwn_rnm(db, q, last, chat_id, action, edit_message_id, arguments) ==
    IF Len(arguments) < 5 THEN CallbackError(db, chat_id)
    ELSE
    LET is_video == DecodeIsVideo(arguments[4])
        bitrate == ParseBitrate(arguments[5])
    IN  IF action = "dwn"
        THEN markup_dwn(db, q, last, chat_id, IntV(edit_message_id), Val(arguments[1]),
                        Val(arguments[2]), Val(arguments[3]), is_video, bitrate)
        ELSE markup_rnm(db, chat_id, edit_message_id, arguments[1], arguments[2], arguments[3],
                        is_video, bitrate)

\* is renaming reset for this action (line 210)
ResetsRename_fmt(action) == action # "fmt" /\ action # "rnm" /\ action # "dwn"

ResetsRename(action) == action # "rdn" /\ action # "rnm" /\ action # "dwn"

\* query_callback, lines 190-283
query_callback(db, q, cache, last, chat_id, message_id, data_parts) ==
    IF Len(data_parts) < 2 \/ ~IsInt(data_parts[2]) THEN CallbackError(db, chat_id)
    ELSE
    LET action == data_parts[1]
        edit_message_id == ParseInt(data_parts[2])
        arguments == SubSeq(data_parts, 3, Len(data_parts))
        d1 == IF ResetsRename(action) THEN database_set_data(db, chat_id, <<"rename">>, NoneV) ELSE db
    IN  IF IsStale(edit_message_id, message_id)
        THEN Result(db, Msg(chat_id, NoneV, <<"error_expired">>, <<>>), "idle", NoJob)
        ELSE CASE action = "fmt" ->
                    IF Len(arguments) < 2 THEN CallbackError(d1, chat_id)
                    ELSE markup_fmt(d1, cache, chat_id, edit_message_id, arguments[1], arguments[2])
               [] action \in {"dwn", "rnm"} ->
                    callback_dwn_rnm(d1, q, last, chat_id, action, edit_message_id, arguments)
               [] action = "rdn" ->
                    callback_rdn(d1, q, last, chat_id, edit_message_id, arguments)
               [] action = "sch" -> markup_sch(d1, chat_id, edit_message_id)
               [] OTHER -> Result(d1, last, "idle", NoJob)

\* _rename: "Author - Title" split on the first "-", both parts stripped
rename_(db, last, chat_id, request) ==
    LET author == Strip(SplitHead(request, "-"))
        title == Strip(SplitRest(request, "-"))
    IN  IF author = <<>> \/ title = <<>>
        THEN [db  |-> database_touch(db, chat_id),
              msg |-> Msg(chat_id, database_get_data(db, chat_id, <<"rename", "edit_message_id">>),
                          <<"rename_error">>, <<>>)]
        ELSE LET d1 == database_set_data(db, chat_id, <<"rename", "final", "author">>, Val(author))
                 d2 == database_set_data(d1, chat_id, <<"rename", "final", "title">>, Val(title))
             IN  [db  |-> database_set_data(d2, chat_id, <<"rename", "renamed">>, Val(TRUE)),
                  msg |-> last]

\* bot_message, lines 681-686: is the text taken as rename text
AwaitingRenameText(db, chat_id) ==
    /\ ~IsNone(database_get_data(db, chat_id, <<"rename">>))
    /\ IsNone(database_get_data(db, chat_id, <<"rename", "final", "title">>))
    /\ IsNone(database_get_data(db, chat_id, <<"rename", "final", "channel">>))
    /\ LET r == database_get_data(db, chat_id, <<"rename", "renamed">>)
       IN  ~IsNone(r) /\ r.val = TRUE

\* bot_message, lines 687-697: _rename, then markup_dwn with the staged parameters
rename_and_download(db, q, last, chat_id, request) ==
    LET r == rename_(db, last, chat_id, request)
    IN  markup_dwn(r.db, q, r.msg, chat_id,
                   database_get_data(r.db, chat_id, <<"rename", "callback", "edit_message_id">>),
                   database_get_data(r.db, chat_id, <<"rename", "callback", "extractor">>),
                   database_get_data(r.db, chat_id, <<"rename", "callback", "id">>),
                   database_get_data(r.db, chat_id, <<"rename", "callback", "format_id">>),
                   FALSE,
                   database_get_data(r.db, chat_id, <<"rename", "callback", "bitrate">>))

\* the texts users send, as sequences of characters
Texts == { <<"x">>, <<"s", "o">>, <<"A", "-", "T">> }

\* the handler's effect on the state of the main thread
Apply(r) ==
    /\ temp_database' = r.db
    /\ hlast' = r.msg
    /\ main' = r.main
    /\ pend' = r.pend

\* can one more job be put (the bound on the jobs of one run)
Budget == nextSeq <= MaxJobs

\* bot_message with _search, lines 663-701 and 630-661
BotMessage(chat_id, text) ==
    /\ main = "idle"
    /\ LET request == Strip(text)
       IN  IF Len(request) < 2
           THEN /\ Apply(Result(temp_database, Msg(chat_id, NoneV, <<"empty_message">>, <<>>), "idle", NoJob))
                /\ UNCHANGED nextMsg
           ELSE IF AwaitingRenameText(temp_database, chat_id)
           THEN /\ Apply(rename_and_download(temp_database, queue, hlast, chat_id, request))
                /\ main' = "dwn_put" => Budget
                /\ UNCHANGED nextMsg
           ELSE IF full(queue)
           THEN /\ Apply(Result(database_touch(temp_database, chat_id),
                                Msg(chat_id, NoneV, <<"error_queue_full">>, <<>>), "idle", NoJob))
                /\ UNCHANGED nextMsg
           ELSE \E sent \in BOOLEAN :
                IF sent
                THEN /\ Budget /\ nextMsg <= MaxMsg
                     /\ Apply(Result(database_touch(temp_database, chat_id),
                                     Msg(chat_id, NoneV, <<"searching">>, <<>>), "search_put",
                                     SearchJob(chat_id, IntV(nextMsg), request)))
                     /\ nextMsg' = nextMsg + 1
                ELSE /\ Apply(Result(database_touch(temp_database, chat_id),
                                     Msg(chat_id, NoneV, <<"error_send">>, <<>>), "idle", NoJob))
                     /\ UNCHANGED nextMsg
    /\ UNCHANGED <<queue, queue_listener_thread, search_cache, nextSeq, stopped>>
    /\ UNCHANGED workerVars

\* _search, line 661 and markup_dwn, line 557: self.queue_processor.queue.put(data)
Put ==
    /\ main \in {"search_put", "dwn_put"}
    /\ can_put(queue)
    /\ queue' = put(queue, [pend EXCEPT !.seq = nextSeq])
    /\ nextSeq' = nextSeq + 1
    /\ main' = IF main = "dwn_put" THEN "dwn_notify" ELSE "idle"
    /\ pend' = IF main = "dwn_put" THEN pend ELSE NoJob
    /\ UNCHANGED <<queue_listener_thread, temp_database, search_cache, hlast, nextMsg, stopped>>
    /\ UNCHANGED workerVars

\* markup_dwn, lines 560-566: the "download started" message
DwnNotify ==
    /\ main = "dwn_notify"
    /\ hlast' = IF IsNone(pend.edit_message_id) THEN hlast
                ELSE Msg(pend.chat_id,
                         IF pend.edit_message_id.val >= 0 THEN pend.edit_message_id ELSE NoneV,
                         <<"download_started">>, <<>>)
    /\ main' = "idle"
    /\ pend' = NoJob
    /\ UNCHANGED <<queue, queue_listener_thread, temp_database, search_cache, nextSeq, nextMsg, stopped>>
    /\ UNCHANGED workerVars

\* the callback_data a button press can carry
MsgTokens == {ToString(m) : m \in MsgIds}
Payloads ==
    {<<"fmt", t, m.extractor, m.id>> : t \in MsgTokens, m \in Media}
    \cup {<<"dwn", t, m.extractor, m.id, "f1", "0", "128.00">> : t \in MsgTokens, m \in Media}
    \cup {<<"dwn", t, m.extractor, m.id, "v1+f1", "1", "">> : t \in MsgTokens, m \in Media}
    \cup {<<"rnm", t, m.extractor, m.id, "f1", "0", "128.00">> : t \in MsgTokens, m \in Media}
    \cup {<<"rdn", t, m.extractor, m.id, "f1", "0", "0", "128.00">> : t \in MsgTokens, m \in Media}
    \cup {<<"sch", t>> : t \in MsgTokens}
    \cup {<<"fmt", t>> : t \in MsgTokens}

\* query_callback up to the point where it blocks
QueryCallback(chat_id, message_id, data_parts) ==
    /\ main = "idle"
    /\ Apply(query_callback(temp_database, queue, search_cache, hlast, chat_id, message_id, data_parts))
    /\ main' = "dwn_put" => Budget
    /\ UNCHANGED <<queue, queue_listener_thread, search_cache, nextSeq, nextMsg, stopped>>
    /\ UNCHANGED workerVars

\* get_formats, lines 543-550: search() returns on the main thread, then
\* markup_fmt goes on
FmtSearchDone ==
    /\ main = "fmt_search"
    /\ \E results \in SearchOutcomes :
        /\ \A i \in 1..Len(results) : results[i].extractor = pend.extractor
        /\ search_cache' = search_cache \cup {results[i] : i \in 1..Len(results)}
        /\ Apply(IF cache_has(search_cache', pend.extractor, pend.query)
                 THEN FmtRender(temp_database, pend.chat_id, pend.edit_message_id, pend.extractor,
                                pend.id, cache_get(search_cache', pend.extractor, pend.query))
                 ELSE FmtError(temp_database, pend.chat_id, pend.edit_message_id, FALSE))
    /\ UNCHANGED <<queue, queue_listener_thread, nextSeq, nextMsg, stopped>>
    /\ UNCHANGED workerVars

\* the inputs of the runs that exercise the queue: search texts, format
\* requests and download requests
QueueTexts == { <<"s", "o">> }
QueueMsgIds == {1}
QueuePayloads ==
    {<<"dwn", "1", m.extractor, m.id, "f1", "0", "128.00">> : m \in Media}

Next ==
    \/ WGet \/ WSearch \/ WDownload \/ WSendFile \/ WFinal \/ WCleanup \/ WExcept \/ WLoop
    \/ Start \/ Stop \/ StopPut \/ StopJoin
    \/ \E c \in Chats, t \in QueueTexts : BotMessage(c, t)
    \/ \E c \in Chats, m \in QueueMsgIds, p \in QueuePayloads : QueryCallback(c, m, p)
    \/ Put
    \/ DwnNotify

Spec == Init /\ [][Next]_vars

\* ---------------------------------------------------------------------
\* the runs that exercise the format screen: searches on the worker thread,
\* presses of a result button on the main thread (the cache is empty after a
\* restart of the bot, the buttons of older messages are still there)
FormatJobs == 2
FormatPayloads == {<<"fmt", "1", m.extractor, m.id>> : m \in Media}

FormatSearch ==
    /\ nextSeq <= FormatJobs
    /\ \E c \in Chats, t \in QueueTexts : BotMessage(c, t)

FormatPress == \E c \in Chats, m \in QueueMsgIds, p \in FormatPayloads : QueryCallback(c, m, p)

FormatNext ==
    \/ Start \/ WGet \/ WSearch \/ WLoop
    \/ FormatSearch \/ Put \/ FormatPress \/ FmtSearchDone

FormatSpec == Init /\ [][FormatNext]_vars

\* ---------------------------------------------------------------------
\* the runs that exercise the session store: the buttons of the last screen
\* a handler has shown, pressed on the message that carries them; payloads
\* of older messages and payloads the program never emits (too few
\* arguments, no integer where one is expected, an index out of range, an
\* unknown action), pressed on any message; texts with and without author
\* and title.  The worker is busy with a long job and dequeues nothing.
SessionChats == {1}
SessionTexts == { <<"A", "-", "T">>, <<"-", "T">> }

OldPayloads ==
    {<<"fmt", "1", m.extractor, m.id>> : m \in Media}
    \cup { <<"sch", "1">>, <<"zzz", "1">> }

MalformedPayloads ==
    { <<"fmt">>, <<"fmt", "1">>, <<"fmt", "x", "youtube", "a">>,
      <<"dwn", "1", "youtube", "a", "f1">>,
      <<"rnm", "1", "youtube", "a", "f1", "0">>,
      <<"rdn", "1", "youtube", "a", "f1", "0", "0">>,
      <<"rdn", "1", "youtube", "a", "f1", "0", "x", "128.00">> }

IndexPayloads ==
    {<<"rdn", "1", "youtube", "a", "f1", "0", i, "128.00">> : i \in {"-1", "3"}}

SessionText == \E c \in SessionChats, t \in SessionTexts : BotMessage(c, t)

SessionPress ==
    /\ ~IsNone(hlast.edit_message_id)
    /\ \E i \in 1..Len(hlast.markup) :
         QueryCallback(hlast.chat_id, hlast.edit_message_id.val, hlast.markup[i])

SessionOld ==
    \E c \in SessionChats, m \in MsgIds, p \in OldPayloads \cup MalformedPayloads \cup IndexPayloads :
        QueryCallback(c, m, p)

SessionNext ==
    \/ SessionText \/ SessionPress \/ SessionOld
    \/ FmtSearchDone \/ Put \/ DwnNotify

SessionSpec == Init /\ [][SessionNext]_vars

\* ---------------------------------------------------------------------
\* the runs with a fairly scheduled worker: every step of the worker thread
\* that can be taken is taken in the end (a search, a download and a delivery
\* return or raise; the thread is not starved)
LiveJobs == 2

Worker == WGet \/ WSearch \/ WDownload \/ WSendFile \/ WFinal \/ WCleanup \/ WExcept \/ WLoop

LiveSearch ==
    /\ nextSeq <= LiveJobs
    /\ \E c \in Chats, t \in QueueTexts : BotMessage(c, t)

LiveDownload ==
    /\ nextSeq <= LiveJobs
    /\ \E c \in Chats, m \in QueueMsgIds, p \in QueuePayloads : QueryCallback(c, m, p)

LiveNext ==
    \/ Worker
    \/ Start \/ Stop \/ StopPut \/ StopJoin
    \/ LiveSearch \/ LiveDownload \/ Put \/ DwnNotify

FairSpec == Init /\ [][LiveNext]_vars /\ WF_vars(Worker)

\* ====================================================================
\* Properties
\* ====================================================================

\* the jobs dequeued whose handling has not ended
Executing == {i \in 1..Len(log) : log[i].seq \notin done}

\* C1: at most one worker thread runs the loop and at most one job is in
\* execution; every job dequeued before the newest one has ended, a download
\* with its cleanup run.
C1_OneWorkerOneJob ==
    /\ running <= 1
    /\ Cardinality(Executing) <= 1
    /\ \A i \in 1..Len(log) :
         i < Len(log) =>
            /\ log[i].seq \in done
            /\ log[i].action = "download" => cleanups[log[i].seq] = 1
    /\ wpc \in {"none", "get", "ended"} => Executing = {}

C1_Witness ==
    /\ Len(log) = 2
    /\ wpc = "download"
    /\ log[1].action = "download"
    /\ log[1].chat_id # log[2].chat_id
    /\ queue # <<>>

\* C3: a search text or a download request handled while the queue holds
\* queue_size items adds nothing, the chat gets the queue-full message, and
\* the queue never holds more than queue_size items.
C3_QueueFullRejected ==
    [][ /\ Len(queue') <= queue_size
        /\ ( /\ Len(queue) = queue_size
             /\ \/ \E c \in Chats, t \in QueueTexts : BotMessage(c, t)
                \/ \E c \in Chats, m \in QueueMsgIds, p \in QueuePayloads : QueryCallback(c, m, p) )
           => /\ queue' = queue
              /\ main' = "idle"
              /\ pend' = NoJob
              /\ hlast'.text = <<"error_queue_full">> ]_vars

C3_Witness ==
    /\ Len(queue) = queue_size
    /\ main = "idle"
    /\ hlast.text = <<"error_queue_full">>
    /\ hlast.markup # <<>>

\* C4: the put of a handler never blocks: whenever a handler stands before
\* its queue.put, the queue has room.
C4_PutNeverBlocks == main \in {"search_put", "dwn_put"} => Len(queue) < queue_size

C4_Witness ==
    /\ main = "search_put"
    /\ Len(queue) = queue_size - 1
    /\ wpc = "download"

\* C5: once stop() has returned after joining, the worker thread has ended
\* and executes nothing until start() is called again, whatever the queue
\* holds.
C5_StoppedMeansEnded ==
    stopped => /\ wpc = "ended"
               /\ running = 0
               /\ Executing = {}

C5_Witness ==
    /\ stopped
    /\ wpc = "ended"
    /\ Len(log) >= 2
    /\ queue = <<>>

\* the job with number j waits in the queue
Queued(j) == \E k \in 1..Len(queue) : queue[k] # Sentinel /\ queue[k].seq = j

\* the numbers of the jobs put so far
PutSoFar == 1..(nextSeq - 1)

\* no job is dequeued twice, none is lost between the queue and the worker,
\* and the worker ends only with every job put so far executed
C7_Once ==
    /\ \A i, k \in 1..Len(log) : log[i].seq = log[k].seq => i = k
    /\ \A j \in PutSoFar : Queued(j) \/ (\E i \in 1..Len(log) : log[i].seq = j)
    /\ \A j \in PutSoFar : ~(Queued(j) /\ \E i \in 1..Len(log) : log[i].seq = j)
    /\ \A j \in done : \E i \in 1..Len(log) : log[i].seq = j

\* C7: with a fairly scheduled worker every job that waits in the queue of a
\* live worker is executed in the end, exactly once; the worker ends on
\* stop() only when every job put before the sentinel has been executed.
C7_EveryJobExecutedOnce ==
    /\ \A j \in 1..LiveJobs : (Queued(j) /\ is_alive) ~> (j \in done)
    /\ []C7_Once
    /\ [][(wpc # "ended" /\ wpc' = "ended") => (queue' = <<>> /\ PutSoFar \subseteq done)]_vars

C7_Witness ==
    /\ wpc = "ended"
    /\ stopped
    /\ done = 1..LiveJobs
    /\ \E i \in 1..Len(log) : log[i].action = "download"

\* C8: jobs are executed in the order they were put: the numbers of the jobs
\* dequeued rise, every job still queued was put after every job dequeued,
\* and a job is dequeued only when all jobs before it have ended.
C8_Fifo ==
    /\ \A i, j \in 1..Len(log) : i < j => log[i].seq < log[j].seq
    /\ \A i \in 1..Len(log), k \in 1..Len(queue) :
         queue[k] # Sentinel => log[i].seq < queue[k].seq
    /\ \A k, l \in 1..Len(queue) :
         (k < l /\ queue[k] # Sentinel /\ queue[l] # Sentinel) => queue[k].seq < queue[l].seq
    /\ \A i \in 1..Len(log) : i < Len(log) => log[i].seq \in done

C8_Witness ==
    /\ Len(log) >= 2
    /\ log[1].chat_id # log[2].chat_id
    /\ log[1].action # log[2].action
    /\ log[2].seq \in done

\* C9: cleanup() runs exactly once for every download job, after the
\* download attempt and before the next job is dequeued, whatever failed.
C9_CleanupOnce ==
    \A i \in 1..Len(log) :
        log[i].action = "download" =>
            IF i < Len(log) \/ wpc \in {"except", "loop", "get", "ended"}
            THEN cleanups[log[i].seq] = 1
            ELSE cleanups[log[i].seq] = 0

C9_Witness ==
    /\ wpc = "loop"
    /\ data.action = "download"
    /\ failure = "send_file"
    /\ cleanups[data.seq] = 1

\* how the handling of the job in data has ended, by what failed
C6_Report ==
    /\ data.seq \in done
    /\ wlast.chat_id = data.chat_id
    /\ wlast.edit_message_id = data.edit_message_id
    /\ CASE failure = "none" -> wlast.text[1] \notin {"search_error", "download_error"}
         [] failure = "search" ->
                /\ wlast.text[1] # "search_error"
                /\ wlast.text[Len(wlast.text)] \in {"search_no_results", "search_result_suffix"}
         [] failure = "download" -> wlast.text \in {<<"download_error", "None">>, <<"download_error", "error">>}
         [] failure = "timeout" -> wlast.text = <<"download_error", "timeout">>
         [] failure \in {"send_file", "report"} -> wlast = UnhandledMessage(data)

\* C6 as claimed: whatever failed, the job ends with the error message of
\* its action kind.
C6_Original ==
    (wpc = "loop" /\ failure # "none") => wlast.text[1] = data.action \o "_error"

\* C6 amended: the worker ends only by dequeuing the sentinel; a failed
\* download, a timeout and a failed delivery of the file end with the
\* download error message, a failed search ends with the search result screen
\* (search swallows its failures), and in every case the job's handling ends.
C6_WorkerSurvives ==
    [][ /\ (wpc # "ended" /\ wpc' = "ended")
            => (wpc = "get" /\ queue # <<>> /\ Head(queue) = Sentinel)
        /\ (wpc' = "loop") => C6_Report' ]_vars

C6_Witness ==
    /\ wpc = "loop"
    /\ failure = "search"
    /\ wlast.text = <<"search_no_results">>
    /\ Len(log) >= 2
    /\ queue # <<>>

\* the invocations of search and download in progress: the worker thread
\* inside search() or download(), the main thread inside the search() that
\* get_formats calls for an item that is not in the cache
InProgress ==
    (IF wpc \in {"search", "download"} THEN 1 ELSE 0) + (IF main = "fmt_search" THEN 1 ELSE 0)

\* C2 as claimed: at most one search or download is in progress in the
\* whole process, the search of a format request included.
C2_Original == InProgress <= 1

\* the button that leads back to the format screen of the job's media item
C10_BackButton == <<"fmt", ToString(data.edit_message_id.val), data.extractor.val, data.id.val>>

\* C10 as claimed: every download job ends with a final message on its edit
\* target that carries exactly the back button to format selection.
C10_Original ==
    (wpc = "loop" /\ data.action = "download") =>
        /\ wlast.chat_id = data.chat_id
        /\ wlast.edit_message_id = data.edit_message_id
        /\ wlast.markup = <<C10_BackButton>>

\* what the code does: a download job ends with a message on its edit
\* target; the message carries exactly the back button to format selection
\* unless sending the file failed, and then it is the download error without
\* any button.
DownloadEndsWithMessage ==
    (wpc = "loop" /\ data.action = "download") =>
        /\ wlast.chat_id = data.chat_id
        /\ wlast.edit_message_id = data.edit_message_id
        /\ IF failure \in {"send_file", "report"}
           THEN wlast.markup = <<>> /\ wlast.text[1] = "download_error"
           ELSE /\ wlast.markup = <<C10_BackButton>>
                /\ wlast.text[1] = IF failure = "none" THEN "download_finished" ELSE "download_error"

\* ---------------------------------------------------------------------
\* the session store and the button payloads

\* the rename sub-tree of a chat
RenameOf(db, chat_id) == database_get_data(db, chat_id, <<"rename">>)

\* the payloads a press can carry in the current state
Pressable ==
    OldPayloads \cup MalformedPayloads \cup IndexPayloads
    \cup {hlast.markup[i] : i \in 1..Len(hlast.markup)}

\* the payload carries an integer edit-message id
HasId(p) == Len(p) >= 2 /\ IsInt(p[2])

\* bot_message never takes a text as rename text: "renamed" is true only
\* after _rename has also set rename.final.title
RenameTextNeverTaken == \A c \in Chats : ~AwaitingRenameText(temp_database, c)

\* C11: a payload whose edit-message id differs from the id of the message
\* it was pressed on gets the expired message and nothing else happens: no
\* handler runs, nothing is put into the queue, the session store is unchanged.
C11_StaleRejected ==
    [][ \A c \in SessionChats, m \in MsgIds, p \in Pressable :
          (main = "idle" /\ HasId(p) /\ ParseInt(p[2]) # m /\ QueryCallback(c, m, p))
          => /\ temp_database' = temp_database
             /\ queue' = queue
             /\ search_cache' = search_cache
             /\ main' = "idle"
             /\ pend' = NoJob
             /\ hlast' = Msg(c, NoneV, <<"error_expired">>, <<>>) ]_vars

C11_Witness ==
    /\ hlast.text = <<"error_expired">>
    /\ hlast.chat_id \in Chats
    /\ main = "idle"
    /\ LET r == RenameOf(temp_database, hlast.chat_id)
       IN  /\ ~IsNone(r)
           /\ HasKey(r, "callback")
           /\ NodeGet(r, <<"names">>) # Val(<<>>)

\* the payload is pressed on the message it names and has too few arguments
\* for its action or no integer where the name index is expected
Undecodable(p) ==
    \/ Len(p) < 2
    \/ ~IsInt(p[2])
    \/ p[1] = "fmt" /\ Len(p) < 4
    \/ p[1] \in {"dwn", "rnm"} /\ Len(p) < 7
    \/ p[1] = "rdn" /\ (Len(p) < 8 \/ ~IsInt(p[7]))

\* C13 as claimed: a payload that cannot be decoded is reported as an error,
\* nothing is put into the queue and the rename sub-tree of the chat is as
\* it was.
C13_Original ==
    [][ \A c \in SessionChats, m \in MsgIds, p \in MalformedPayloads :
          (main = "idle" /\ Undecodable(p) /\ (HasId(p) => ParseInt(p[2]) = m)
           /\ QueryCallback(c, m, p))
          => /\ RenameOf(temp_database', c) = RenameOf(temp_database, c)
             /\ queue' = queue
             /\ main' = "idle"
             /\ pend' = NoJob
             /\ hlast' = Msg(c, NoneV, <<"error_common">>, <<>>) ]_vars

\* what the code does: the same, except that a "fmt" payload with too few
\* arguments has cleared the rename sub-tree before its arguments are counted
UndecodableReported ==
    [][ \A c \in SessionChats, m \in MsgIds, p \in MalformedPayloads :
          (main = "idle" /\ Undecodable(p) /\ (HasId(p) => ParseInt(p[2]) = m)
           /\ QueryCallback(c, m, p))
          => /\ RenameOf(temp_database', c) =
                   (IF HasId(p) /\ p[1] = "fmt" THEN NoneV ELSE RenameOf(temp_database, c))
             /\ queue' = queue
             /\ main' = "idle"
             /\ pend' = NoJob
             /\ hlast' = Msg(c, NoneV, <<"error_common">>, <<>>) ]_vars

\* the rename sub-tree that markup_fmt stages for an item
Staged(edit_message_id, info) ==
    NodeGet(FmtRender(<<Absent, Absent>>, 1, edit_message_id, info.extractor, info.id, info).db[1],
            <<"rename">>)

\* the payload is decoded: it names the message and has the arguments of its
\* action
Decodable(p, m) == HasId(p) /\ ~Undecodable(p) /\ ParseInt(p[2]) = m

\* C14 as claimed: decoding clears the rename sub-tree exactly when the
\* action is not fmt, rnm or dwn.  So a "fmt" press does not clear (what a
\* rename screen had staged under "callback" is still there afterwards), and
\* an "rdn" press clears (its guess list is gone and the press is refused).
C14_Original ==
    [][ \A c \in SessionChats, m \in MsgIds, p \in Pressable :
          (main = "idle" /\ Decodable(p, m) /\ QueryCallback(c, m, p))
          => /\ (p[1] = "fmt" /\ HasKey(RenameOf(temp_database, c), "callback") /\ main' = "idle"
                 /\ hlast'.text = <<"format_select">>)
                   => HasKey(RenameOf(temp_database', c), "callback")
             /\ (p[1] = "rdn") => (main' = "idle" /\ IsNone(RenameOf(temp_database', c))) ]_vars

\* C14 amended: decoding clears the rename sub-tree exactly when the action
\* is not rdn, rnm or dwn.  A "sch" press, a press with an unknown action
\* and a "fmt" press start from a cleared sub-tree (after "fmt" it is absent
\* or exactly what markup_fmt stages); an "rnm" press keeps what was staged
\* (title, channel, final), an "rdn" press still finds its guess list and a
\* "dwn" press still finds rename.final.
C14_ClearsRename ==
    [][ \A c \in SessionChats, m \in MsgIds, p \in Pressable :
          (main = "idle" /\ Decodable(p, m) /\ QueryCallback(c, m, p))
          => LET old == RenameOf(temp_database, c)
                 new == RenameOf(temp_database', c)
             IN  CASE p[1] = "fmt" ->
                        \/ IsNone(new)
                        \/ \E info \in Media : new = Staged(m, info)
                   [] p[1] = "rnm" ->
                        IF IsNone(old) THEN IsNone(new)
                        ELSE /\ \A k \in {"edit_message_id", "title", "channel", "final"} :
                                  NodeGet(new, <<k>>) = NodeGet(old, <<k>>)
                             /\ HasKey(new, "callback")
                   [] p[1] = "rdn" ->
                        LET names == NodeGet(old, <<"names">>)
                            i == ParseInt(p[7])
                        IN  (i >= 0 /\ ~IsNone(names) /\ i < Len(names.val) /\ ~full(queue))
                            => /\ main' = "dwn_put"
                               /\ pend'.author = Val(names.val[i + 1][1])
                               /\ pend'.title = Val(names.val[i + 1][2])
                   [] p[1] = "dwn" ->
                        IF full(queue) THEN new = old
                        ELSE /\ main' = "dwn_put"
                             /\ pend'.author = NodeGet(old, <<"final", "author">>)
                             /\ pend'.title = NodeGet(old, <<"final", "title">>)
                   [] OTHER -> IsNone(new) ]_vars

\* a "sch" press has cleared what a rename screen had staged
C14_Witness ==
    /\ main = "idle"
    /\ hlast = Msg(1, NoneV, <<"error_expired">>, <<>>)
    /\ temp_database[1] = DictPut(EmptyDict, "rename", NoneV)
    /\ queue = <<>>

\* the rename sub-tree holds what markup_fmt stages for a message: the
\* message id, a title, a channel, no guesses, renamed = false
FormatStaged(r, edit_message_id) ==
    /\ IsDict(r)
    /\ NodeGet(r, <<"edit_message_id">>) = IntV(edit_message_id)
    /\ \E info \in Media : /\ NodeGet(r, <<"title">>) = Val(InfoTitle(info))
                           /\ NodeGet(r, <<"channel">>) = Val(InfoChannel(info))
    /\ NodeGet(r, <<"names">>) = Val(<<>>)
    /\ NodeGet(r, <<"renamed">>) = Val(FALSE)

\* a step that ends the handling of a "fmt" press of chat c on message m
FmtHandled(c, m) ==
    /\ main' = "idle"
    /\ \/ /\ main = "idle"
          /\ \E p \in Pressable : p[1] = "fmt" /\ Decodable(p, m) /\ QueryCallback(c, m, p)
       \/ /\ main = "fmt_search"
          /\ pend.chat_id = c
          /\ pend.edit_message_id = m
          /\ FmtSearchDone

\* C15 as claimed: after a "fmt" press has been handled the rename sub-tree
\* of the chat is present and staged.
C15_Original ==
    [][ \A c \in SessionChats, m \in MsgIds :
          FmtHandled(c, m) => FormatStaged(RenameOf(temp_database', c), m) ]_vars

\* C15 amended: after a "fmt" press has been handled and the formats of the
\* item were obtained (the format screen is on the message), the rename
\* sub-tree of the chat is present and staged; when the formats were not
\* obtained (the item is not known any more, or the search finds nothing)
\* the error is on the message and the sub-tree is cleared.
C15_StagedAfterFormats ==
    [][ \A c \in SessionChats, m \in MsgIds :
          FmtHandled(c, m)
          => IF hlast'.text = <<"format_select">>
             THEN FormatStaged(RenameOf(temp_database', c), m)
             ELSE /\ hlast'.text \in {<<"error_expired">>, <<"error_common">>}
                  /\ hlast'.edit_message_id = IntV(m)
                  /\ IsNone(RenameOf(temp_database', c)) ]_vars

\* the format screen is on a message and the sub-tree is staged for it
C15_Witness ==
    /\ main = "idle"
    /\ hlast.text = <<"format_select">>
    /\ hlast.chat_id \in SessionChats
    /\ FormatStaged(RenameOf(temp_database, hlast.chat_id), hlast.edit_message_id.val)

\* the author and title staged in rename.final when markup_dwn reads them:
\* what the store holds, or for an "rdn" press the guess just written
FinalBeforeClearing(c, p) ==
    LET old == RenameOf(temp_database, c)
    IN  IF p[1] = "rdn"
        THEN LET pair == PyIndex(NodeGet(old, <<"names">>).val, ParseInt(p[7]))
             IN  <<Val(pair[1]), Val(pair[2])>>
        ELSE <<NodeGet(old, <<"final", "author">>), NodeGet(old, <<"final", "title">>)>>

\* C16: whenever a Download job is added to the queue for a chat, the job
\* carries exactly the author and title staged in rename.final immediately
\* before the clearing (None when nothing was staged), and the rename
\* sub-tree of the chat is cleared from then on until the handler finishes.
C16_DownloadClearsRename ==
    [][ /\ (main = "idle" /\ main' = "dwn_put")
           => \E c \in SessionChats, m \in MsgIds, p \in Pressable :
                /\ p[1] \in {"dwn", "rdn"}
                /\ QueryCallback(c, m, p)
                /\ pend'.action = "download"
                /\ pend'.chat_id = c
                /\ <<pend'.author, pend'.title>> = FinalBeforeClearing(c, p)
                /\ IsNone(RenameOf(temp_database', c))
        /\ (main = "dwn_put" /\ main' # main)
           => /\ queue' = Append(queue, [pend EXCEPT !.seq = nextSeq])
              /\ pend' = pend
              /\ IsNone(RenameOf(temp_database', pend.chat_id))
        /\ (main = "dwn_notify" /\ main' # main)
           => /\ main' = "idle"
              /\ queue' = queue
              /\ IsNone(RenameOf(temp_database', pend.chat_id))
        /\ (\E i \in 1..Len(queue') : queue'[i].action = "download" /\ (i > Len(queue) \/ queue[i] # queue'[i]))
           => main = "dwn_put" ]_vars

\* a download handler has finished: its job is in the queue with the author
\* and title of a guess, and the rename sub-tree of the chat is cleared
C16_Witness ==
    /\ main = "idle"
    /\ hlast.text = <<"download_started">>
    /\ IsNone(RenameOf(temp_database, hlast.chat_id))
    /\ \E i \in 1..Len(queue) :
         /\ queue[i].action = "download"
         /\ queue[i].chat_id = hlast.chat_id
         /\ queue[i].author # NoneV
         /\ queue[i].title # NoneV

\* a "dwn" press, or an "rdn" press whose index picks a staged guess, of
\* chat c on message m that finds the queue full
FullDownloadPress(c, m, p) ==
    /\ main = "idle"
    /\ full(queue)
    /\ Decodable(p, m)
    /\ \/ p[1] = "dwn"
       \/ /\ p[1] = "rdn"
          /\ LET names == NodeGet(RenameOf(temp_database, c), <<"names">>)
             IN  names \notin {NoneV, Absent} /\ PyIndexOk(names.val, ParseInt(p[7]))
    /\ QueryCallback(c, m, p)

\* the queue-full error on the message with the Back button to the formats
QueueFullScreen(c, m, p) == Msg(c, IntV(m), <<"error_queue_full">>, << <<"fmt", p[2], p[3], p[4]>> >>)

InvalidIndexPress(c, m, p) ==
    /\ main = "idle"
    /\ Decodable(p, m)
    /\ p[1] = "rdn"
    /\ LET names == NodeGet(RenameOf(temp_database, c), <<"names">>)
           i == ParseInt(p[7])
       IN  i < 0 \/ names \in {NoneV, Absent} \/ i >= Len(names.val)
    /\ QueryCallback(c, m, p)

\* C18 as claimed: an "rdn" press with an invalid name index is rejected as
\* an error, rename.final is not written and no job is produced.
C18_Original ==
    [][ \A c \in SessionChats, m \in MsgIds, p \in Pressable :
          InvalidIndexPress(c, m, p)
          => /\ RenameOf(temp_database', c) = RenameOf(temp_database, c)
             /\ queue' = queue
             /\ main' = "idle"
             /\ pend' = NoJob
             /\ hlast' = Msg(c, NoneV, <<"error_common">>, <<>>) ]_vars

\* what the code does: an index that is not below the number of guesses, and
\* any index when there are no guesses, is rejected in this way
IndexBeyondRejected ==
    [][ \A c \in SessionChats, m \in MsgIds, p \in Pressable :
          (InvalidIndexPress(c, m, p)
           /\ LET names == NodeGet(RenameOf(temp_database, c), <<"names">>)
              IN  ParseInt(p[7]) >= 0 \/ names \in {NoneV, Absent} \/ -ParseInt(p[7]) > Len(names.val))
          => /\ RenameOf(temp_database', c) = RenameOf(temp_database, c)
             /\ queue' = queue
             /\ main' = "idle"
             /\ pend' = NoJob
             /\ hlast' = Msg(c, NoneV, <<"error_common">>, <<>>) ]_vars

\* markup_rnm has staged guesses and the callback parameters for the chat
\* and no final title is chosen yet
RenamePrompted(c) ==
    LET r == RenameOf(temp_database, c)
    IN  /\ IsDict(r)
        /\ HasKey(r, "callback")
        /\ NodeGet(r, <<"names">>) \notin {NoneV, Absent, Val(<<>>)}
        /\ NodeGet(r, <<"final", "title">>) = NoneV

\* C19 as claimed: after a "rnm" press has staged guesses and the callback
\* parameters, a following text "A - T" is taken as the manual rename: a
\* Download job with that author and title and the staged parameters goes
\* to the queue, and no Search job.
C19_Original ==
    [][ \A c \in SessionChats :
          (main = "idle" /\ RenamePrompted(c) /\ ~full(queue) /\ BotMessage(c, <<"A", "-", "T">>))
          => LET cb == NodeGet(RenameOf(temp_database, c), <<"callback">>)
             IN  /\ main' = "dwn_put"
                 /\ pend'.action = "download"
                 /\ pend'.chat_id = c
                 /\ pend'.author = Val(<<"A">>)
                 /\ pend'.title = Val(<<"T">>)
                 /\ pend'.extractor = NodeGet(cb, <<"extractor">>)
                 /\ pend'.id = NodeGet(cb, <<"id">>)
                 /\ pend'.format_id = NodeGet(cb, <<"format_id">>)
                 /\ pend'.bitrate = NodeGet(cb, <<"bitrate">>) ]_vars

\* what the code does: renamed is false whenever a rename sub-tree is staged,
\* so the text is a search request like any other
TextIsSearched ==
    [][ \A c \in SessionChats, t \in SessionTexts :
          (main = "idle" /\ RenamePrompted(c) /\ BotMessage(c, t))
          => /\ RenameOf(temp_database', c) = RenameOf(temp_database, c)
             /\ \/ main' = "search_put" /\ pend'.action = "search" /\ pend'.request = t
                \/ main' = "idle" /\ hlast'.text \in {<<"error_queue_full">>, <<"error_send">>} ]_vars

\* C20 as claimed: when a text is taken as the rename text and its author
\* part is empty, the rename-format error is reported on the staged message,
\* no Download job is enqueued and the rename sub-tree is as it was.
C20_Original ==
    [][ \A c \in SessionChats :
          (main = "idle" /\ RenamePrompted(c) /\ BotMessage(c, <<"-", "T">>))
          => /\ hlast' = Msg(c, NodeGet(RenameOf(temp_database, c), <<"edit_message_id">>),
                             <<"rename_error">>, <<>>)
             /\ main' = "idle"
             /\ pend' = NoJob
             /\ queue' = queue
             /\ RenameOf(temp_database', c) = RenameOf(temp_database, c) ]_vars

\* ------------------------------------------------- the button payload codec
\* The runs of the codec: a handler emits one button for the values it holds
\* (pend: the action, the message and the arguments that are encoded), the
\* button is pressed on its message and query_callback decodes it (pend: the
\* action, the message and the arguments it hands to the markup function).
CodecFormats == {"f1", "v1+f1"}
CodecBitrates == {128000, 129478}
CodecGuesses == 0..2

\* the values behind a button, by action
FmtArgs(m, extractor, id_) ==
    [action |-> "fmt", edit_message_id |-> m, extractor |-> extractor, id |-> id_]
DwnArgs(action, m, extractor, id_, format_id, is_video, bitrate) ==
    [action |-> action, edit_message_id |-> m, extractor |-> extractor, id |-> id_,
     format_id |-> format_id, is_video |-> is_video, bitrate |-> bitrate]
RdnArgs(m, extractor, id_, format_id, is_video, name_index, bitrate) ==
    [action |-> "rdn", edit_message_id |-> m, extractor |-> extractor, id |-> id_,
     format_id |-> format_id, is_video |-> is_video, name_index |-> name_index, bitrate |-> bitrate]
SchArgs(m) == [action |-> "sch", edit_message_id |-> m]
Undecoded == [action |-> "error"]

\* query_callback, lines 196-272: the action, the message and the arguments
\* decoded from the callback data of a press on message_id
Decode(data_parts, message_id) ==
    IF Len(data_parts) < 2 \/ ~IsInt(data_parts[2]) THEN Undecoded
    ELSE
    LET action == data_parts[1]
        edit_message_id == ParseInt(data_parts[2])
        arguments == SubSeq(data_parts, 3, Len(data_parts))
    IN  IF IsStale(edit_message_id, message_id) THEN Undecoded
        ELSE CASE action = "fmt" ->
                    IF Len(arguments) < 2 THEN Undecoded
                    ELSE FmtArgs(edit_message_id, arguments[1], arguments[2])
               [] action \in {"dwn", "rnm"} ->
                    IF Len(arguments) < 5 THEN Undecoded
                    ELSE DwnArgs(action, edit_message_id, arguments[1], arguments[2], arguments[3],
                                 DecodeIsVideo(arguments[4]), ParseBitrate(arguments[5]))
               [] action = "rdn" ->
                    IF Len(arguments) < 6 \/ ~IsInt(arguments[5]) THEN Undecoded
                    ELSE RdnArgs(edit_message_id, arguments[1], arguments[2], arguments[3],
                                 DecodeIsVideo(arguments[4]), ParseInt(arguments[5]),
                                 ParseBitrate(arguments[6]))
               [] action = "sch" -> SchArgs(edit_message_id)
               [] OTHER -> Undecoded

\* one button of a screen on message m: the values and the callback data
CodecButtons(m) ==
    {<<FmtArgs(m, i.extractor, i.id), BackToFormats(IntV(m), Val(i.extractor), Val(i.id))>> : i \in Media}
    \cup {<<SchArgs(m), SearchBackButton(m)>>}
    \cup UNION {{<<DwnArgs(a, m, i.extractor, i.id, "f1", FALSE, FloatV(b)),
                   AudioButton(a, m, i.extractor, i.id, "f1", b)>> : a \in {"rnm", "dwn"}, b \in CodecBitrates}
                : i \in Media}
    \cup UNION {{<<DwnArgs("dwn", m, i.extractor, i.id, f, TRUE, NoneV),
                   VideoButton(m, i.extractor, i.id, f)>> : f \in CodecFormats}
                : i \in Media}
    \cup UNION {UNION {{<<RdnArgs(m, i.extractor, i.id, f, v, n, FloatV(b)),
                          GuessButton(m, i.extractor, i.id, f, v, n, b)>> : n \in CodecGuesses, b \in CodecBitrates \cup {0}}
                       : f \in CodecFormats, v \in BOOLEAN}
                : i \in Media}

\* a markup function puts a button on message m
CodecEmit ==
    /\ main = "idle"
    /\ \E c \in SessionChats, m \in MsgIds : \E b \in CodecButtons(m) :
         /\ pend' = b[1]
         /\ hlast' = Msg(c, IntV(m), <<"button">>, <<b[2]>>)
    /\ main' = "emitted"
    /\ UNCHANGED <<queue, queue_listener_thread, temp_database, search_cache, nextSeq, nextMsg, stopped>>
    /\ UNCHANGED workerVars

\* the button is pressed on its message and decoded
CodecPress ==
    /\ main = "emitted"
    /\ pend' = Decode(hlast.markup[1], hlast.edit_message_id.val)
    /\ main' = "decoded"
    /\ UNCHANGED <<queue, queue_listener_thread, temp_database, search_cache, hlast, nextSeq, nextMsg, stopped>>
    /\ UNCHANGED workerVars

CodecNext == CodecEmit \/ CodecPress
CodecSpec == Init /\ [][CodecNext]_vars

\* the values with the bitrate rounded to hundredths
Rounded(args) ==
    IF "bitrate" \in DOMAIN args /\ ~IsNone(args.bitrate)
    THEN [args EXCEPT !.bitrate = FloatV(10 * Hundredths(args.bitrate.val))]
    ELSE args

\* C12 as claimed: decoding an emitted button on its message recovers the
\* action, the message id and the argument values that were encoded.
C12_Original == [][ (main = "emitted" /\ main' = "decoded") => pend' = pend ]_vars

\* C12 amended: decoding an emitted button on its message recovers the
\* action, the message id, the extractor, the media id, the format id, the
\* is-video flag and the name index that were encoded, and the bitrate that
\* was encoded rounded to two decimals (no bitrate for a video button).
C12_RoundTrip == [][ (main = "emitted" /\ main' = "decoded") => pend' = Rounded(pend) ]_vars

\* a button for a bitrate of 129.478 was decoded: the bitrate is 129.48
C12_Witness ==
    /\ main = "decoded"
    /\ pend.action \in {"rnm", "dwn", "rdn"}
    /\ pend.bitrate = FloatV(129480)
    /\ hlast.markup[1][Len(hlast.markup[1])] = "129.48"

\* C21: a text of at least two characters that is not taken as a rename
\* text, with the queue not full, either gets the placeholder message and
\* then exactly one Search job with the chat, the query and the id of the
\* placeholder as edit target, put after the placeholder was sent, or (the
\* placeholder could not be sent) the send error and no job.
C21_SearchEnqueued ==
    [][ /\ \A c \in SessionChats, t \in SessionTexts :
             (main = "idle" /\ ~full(queue) /\ ~AwaitingRenameText(temp_database, c)
              /\ Len(Strip(t)) >= 2 /\ BotMessage(c, t))
             => /\ queue' = queue
                /\ \/ /\ main' = "search_put"
                      /\ hlast' = Msg(c, NoneV, <<"searching">>, <<>>)
                      /\ pend' = SearchJob(c, IntV(nextMsg), Strip(t))
                      /\ nextMsg' = nextMsg + 1
                   \/ /\ main' = "idle"
                      /\ hlast' = Msg(c, NoneV, <<"error_send">>, <<>>)
                      /\ pend' = NoJob
        /\ (main = "search_put" /\ main' # main)
             => /\ queue' = Append(queue, [pend EXCEPT !.seq = nextSeq])
                /\ main' = "idle"
                /\ pend' = NoJob
                /\ hlast' = hlast
        /\ (\E i \in 1..Len(queue') : queue'[i].action = "search" /\ (i > Len(queue) \/ queue[i] # queue'[i]))
             => main = "search_put" /\ ~IsNone(pend.edit_message_id) ]_vars

\* the placeholder is out and its Search job is the newest of the queue
C21_Witness ==
    /\ main = "idle"
    /\ hlast.text = <<"searching">>
    /\ queue # <<>>
    /\ LET job == queue[Len(queue)]
       IN  /\ job.action = "search"
           /\ job.chat_id = hlast.chat_id
           /\ job.edit_message_id = IntV(nextMsg - 1)
           /\ job.request = <<"A", "-", "T">>

\* ------------------------------------------- the search result in the store
\* The runs of the back button: the worker thread stores the result of a
\* search with one _database_set_data call after the other (lines 162-172)
\* while the handlers of the main thread read the store.  Nothing serializes
\* the two threads, so a handler runs between any two store accesses of the
\* worker, also between the two assignments of one _database_set_data call
\* (data_temp[key] = {} for a missing mapping, then data_temp[key] = value).
BackTexts == { <<"s", "o">> }
BackOutcomes ==
    {<<>>} \cup {<<m>> : m \in Media} \cup {r \in {<<a, b>> : a \in Media, b \in Media} : r[1] # r[2]}
    \cup {r \in {<<a, b, a>> : a \in Media, b \in Media} : r[1] # r[2]}
BackPaths == { <<"search_result">>, <<"search_result", "text">>, <<"search_result", "edit_message_id">> }

\* lines 114-160: search() has returned, message and buttons are built
WSearchDone ==
    /\ wpc = "search"
    /\ \E results \in BackOutcomes :
        /\ search_cache' = search_cache \cup {results[i] : i \in 1..Len(results)}
        /\ data' = [action |-> "search", chat_id |-> data.chat_id,
                    edit_message_id |-> data.edit_message_id, request |-> data.request,
                    seq |-> data.seq, search_results |-> results]
    /\ wpc' = "store_text"
    /\ UNCHANGED <<queue, queue_listener_thread, running, filepath, error_text, unhandled, failure,
                   wlast, log, done, cleanups, temp_database>>
    /\ UNCHANGED mainVars

\* line 163, one assignment of _database_set_data per step: the mapping
\* "search_result" is created when it is missing, then the text is assigned
WStoreText ==
    /\ wpc = "store_text"
    /\ LET sr == NodeGet(temp_database[data.chat_id], <<"search_result">>)
       IN  IF IsNone(sr)
           THEN /\ temp_database' = [temp_database EXCEPT ![data.chat_id] =
                                        DictPut(@, "search_result", EmptyDict)]
                /\ wpc' = "store_text"
           ELSE /\ temp_database' = database_set_data(temp_database, data.chat_id,
                                        <<"search_result", "text">>, Val(SearchText(data.search_results)))
                /\ wpc' = "store_markup"
    /\ UNCHANGED <<queue, queue_listener_thread, running, data, filepath, error_text, unhandled,
                   failure, wlast, log, done, cleanups, search_cache>>
    /\ UNCHANGED mainVars

\* lines 164-169
WStoreMarkup ==
    /\ wpc = "store_markup"
    /\ temp_database' = database_set_data(temp_database, data.chat_id, <<"search_result", "markup">>,
                            IF Len(data.search_results) # 0
                            THEN Val(SearchButtons(data.edit_message_id, data.search_results))
                            ELSE NoneV)
    /\ wpc' = "store_id"
    /\ UNCHANGED <<queue, queue_listener_thread, running, data, filepath, error_text, unhandled,
                   failure, wlast, log, done, cleanups, search_cache>>
    /\ UNCHANGED mainVars

\* lines 170-172
WStoreId ==
    /\ wpc = "store_id"
    /\ temp_database' = database_set_data(temp_database, data.chat_id,
                            <<"search_result", "edit_message_id">>, data.edit_message_id)
    /\ wpc' = "edit"
    /\ UNCHANGED <<queue, queue_listener_thread, running, data, filepath, error_text, unhandled,
                   failure, wlast, log, done, cleanups, search_cache>>
    /\ UNCHANGED mainVars

\* lines 175-184: the target message is edited with what the store holds
WEdit ==
    /\ wpc = "edit"
    /\ wlast' = Msg(data.chat_id, data.edit_message_id,
                    database_get_data(temp_database, data.chat_id, <<"search_result", "text">>).val,
                    LET m == database_get_data(temp_database, data.chat_id, <<"search_result", "markup">>)
                    IN  IF IsNone(m) THEN <<>> ELSE m.val)
    /\ wpc' = "loop"
    /\ done' = done \cup {data.seq}
    /\ UNCHANGED <<queue, queue_listener_thread, running, data, filepath, error_text, unhandled,
                   failure, log, cleanups, temp_database, search_cache>>
    /\ UNCHANGED mainVars

\* a handler reads the store once: _database_get_data(chat_id, *path)
HandlerGet(chat_id, path) ==
    /\ main = "idle"
    /\ pend' = [action |-> "get", chat_id |-> chat_id, path |-> path,
                value |-> database_get_data(temp_database, chat_id, path)]
    /\ temp_database' = database_touch(temp_database, chat_id)
    /\ UNCHANGED <<queue, queue_listener_thread, search_cache, main, hlast, nextSeq, nextMsg, stopped>>
    /\ UNCHANGED workerVars

BackText == \E c \in SessionChats, t \in BackTexts : BotMessage(c, t)
BackPress == \E c \in SessionChats, m \in MsgIds : QueryCallback(c, m, SearchBackButton(m))
BackGet == \E c \in SessionChats, path \in BackPaths : HandlerGet(c, path)

BackNext ==
    \/ Start \/ BackText \/ Put \/ BackPress \/ BackGet
    \/ WGet \/ WSearchDone \/ WStoreText \/ WStoreMarkup \/ WStoreId \/ WEdit \/ WLoop
BackSpec == Init /\ [][BackNext]_vars

\* the chat's search_result sub-tree
SearchResultOf(db, chat_id) == NodeGet(db[chat_id], <<"search_result">>)

\* the sub-tree is what one search job with edit target m has stored
ProducedFor(sr, m) ==
    \E results \in BackOutcomes :
        sr = SearchResultOf(StoreSearchResult([c \in Chats |-> Absent],
                                              SearchJob(1, IntV(m), <<>>), results), 1)

\* the cached screen on message m
CachedScreen(c, m, sr) ==
    Msg(c, IntV(m), NodeGet(sr, <<"text">>).val,
        IF IsNone(NodeGet(sr, <<"markup">>)) THEN <<>> ELSE NodeGet(sr, <<"markup">>).val)

\* C22 as claimed: a Back press on message m renders the cached search
\* screen on m if and only if the chat's cached search_result was produced
\* for m; otherwise nothing is rendered on m and the expired message is sent.
C22_Original ==
    [][ \A c \in SessionChats, m \in MsgIds :
          (main = "idle" /\ QueryCallback(c, m, SearchBackButton(m)))
          => LET sr == SearchResultOf(temp_database, c)
             IN  IF ProducedFor(sr, m)
                 THEN hlast' = CachedScreen(c, m, sr)
                 ELSE hlast' = Msg(c, NoneV, <<"error_expired">>, <<>>) ]_vars

\* what the code does: the screen is rendered whenever a text is stored and
\* the stored edit_message_id is m, also while the worker has stored the text
\* of a later search and not yet its edit_message_id
BackMatchesStoredId ==
    [][ \A c \in SessionChats, m \in MsgIds :
          (main = "idle" /\ QueryCallback(c, m, SearchBackButton(m)))
          => LET sr == SearchResultOf(temp_database, c)
             IN  IF ~IsNone(NodeGet(sr, <<"text">>)) /\ NodeGet(sr, <<"edit_message_id">>) = IntV(m)
                 THEN hlast' = CachedScreen(c, m, sr)
                 ELSE hlast' = Msg(c, NoneV, <<"error_expired">>, <<>>) ]_vars

\* between two searches of a chat, with the worker outside the store, the
\* stored sub-tree was produced for one message
BackQuiescent ==
    (wpc \notin {"store_text", "store_markup", "store_id"})
    => \A c \in SessionChats :
         LET sr == SearchResultOf(temp_database, c)
         IN  IsNone(sr) \/ \E m \in MsgIds : ProducedFor(sr, m)

\* the worker is inside _database_set_data(chat, "search_result", "text",
\* message): the mapping is created, the text is not assigned yet
InsideSet(c) ==
    /\ wpc = "store_text"
    /\ data.chat_id = c
    /\ SearchResultOf(temp_database, c) = EmptyDict

\* the chat's session before and after the set the worker is inside of
SessionBeforeSet(c) ==
    IF InsideSet(c) THEN DictPut(temp_database[c], "search_result", NoneV)
    ELSE database_touch(temp_database, c)[c]
SessionAfterSet(c) ==
    IF InsideSet(c)
    THEN NodeSet(temp_database[c], <<"search_result", "text">>, Val(SearchText(data.search_results)))
    ELSE database_touch(temp_database, c)[c]

\* C23 as claimed: a get that runs concurrently with a set observes the
\* store entirely before or entirely after the set: what it returns is what
\* the path held before the set began or what it holds after the set ended.
C23_Original ==
    [][ \A c \in SessionChats, path \in BackPaths :
          HandlerGet(c, path)
          => pend'.value \in {NodeGet(SessionBeforeSet(c), path), NodeGet(SessionAfterSet(c), path)} ]_vars

\* ------------------------------------------------------ the session store
\* The runs of the store alone: the sets and gets the program makes, in any
\* order, on the key paths it uses.  The program assigns only None to a path
\* that is a prefix of another path it uses ("rename").  log is the history
\* of the sets.
MaxOps == 3
StorePaths ==
    { <<"rename">>, <<"rename", "title">>, <<"rename", "final", "title">>, <<"search_result", "text">> }
StoreValues(path) == IF path = <<"rename">> THEN {NoneV} ELSE {NoneV, Val("x")}
ReadPaths ==
    StorePaths \cup { <<"search_result">>, <<"rename", "final">>, <<"rename", "channel">>,
                      <<"rename", "final", "author">> }

\* _database_set_data(chat_id, *path, value)
StoreSet(chat_id, path, value) ==
    /\ main = "idle"
    /\ Len(log) < MaxOps
    /\ temp_database' = database_set_data(temp_database, chat_id, path, value)
    /\ pend' = [action |-> "set", chat_id |-> chat_id, path |-> path, value |-> value]
    /\ log' = Append(log, [action |-> "set", chat_id |-> chat_id, path |-> path])
    /\ UNCHANGED <<queue, queue_listener_thread, running, wpc, data, filepath, error_text, unhandled,
                   failure, main, search_cache, wlast, hlast, nextSeq, nextMsg, done, cleanups, stopped>>

StoreNext ==
    \/ \E c \in Chats, path \in StorePaths : \E v \in StoreValues(path) : StoreSet(c, path, v)
    \/ \E c \in Chats, path \in StorePaths : HandlerGet(c, path)
StoreSpec == Init /\ [][StoreNext]_vars

\* one path is the beginning of the other
IsPrefix(p, q) == Len(p) <= Len(q) /\ SubSeq(q, 1, Len(p)) = p
Related(p, q) == IsPrefix(p, q) \/ IsPrefix(q, p)

\* no set of the history addresses the path, a part of it or a path below it
NeverSet(history, c, path) ==
    \A i \in 1..Len(history) : history[i].chat_id # c \/ ~Related(history[i].path, path)

\* C24: after set(chat, k1..kn, v) a get(chat, k1..kn) returns v, also where
\* an ancestor was cleared to None before; the set changes no value outside
\* the addressed path (the paths of other chats and the paths that neither
\* lead to the addressed path nor lie below it return what they returned
\* before); a get returns what the store holds and changes nothing a get
\* can see; a get of a path that was never set returns None.
C24_SetThenGet ==
    [][ /\ (log' # log)
             => LET c == pend'.chat_id
                    path == pend'.path
                IN  /\ StoreSet(c, path, pend'.value)
                    /\ database_get_data(temp_database', c, path) = pend'.value
                    /\ \A c2 \in Chats, q \in ReadPaths :
                         (c2 # c \/ ~Related(q, path))
                         => database_get_data(temp_database', c2, q) = database_get_data(temp_database, c2, q)
        /\ (log' = log)
             => /\ pend'.action = "get"
                /\ pend'.value = database_get_data(temp_database, pend'.chat_id, pend'.path)
                /\ \A c2 \in Chats, q \in ReadPaths :
                     database_get_data(temp_database', c2, q) = database_get_data(temp_database, c2, q)
        /\ \A c \in Chats, q \in ReadPaths :
             NeverSet(log', c, q) => database_get_data(temp_database', c, q) = NoneV ]_vars

\* a value was set, "rename" was cleared to None, and a value set below it
\* is returned
C24_Witness ==
    /\ Len(log) = 3
    /\ log[1].path = <<"rename", "title">>
    /\ log[2].path = <<"rename">>
    /\ log[3].path = <<"rename", "final", "title">>
    /\ log[1].chat_id = log[3].chat_id /\ log[2].chat_id = log[3].chat_id
    /\ database_get_data(temp_database, log[3].chat_id, <<"rename", "final", "title">>) = Val("x")
    /\ database_get_data(temp_database, log[3].chat_id, <<"rename", "title">>) = NoneV

\* ---------------------------------------------------------------------
\* failures of the transport

\* C25 as claimed: a failure of a transport call is swallowed at the call:
\* no exception travels into the worker loop, and the job that issued the
\* call ends as it would have ended without the failure (a download whose
\* file was produced ends with the finished message and its back button).
C25_Original ==
    (failure \in {"send_file", "report"})
    => /\ ~unhandled
       /\ wpc # "except"
       /\ (wpc = "loop") => wlast = FinalMessage(data, filepath, error_text)

\* what the code does: a message that cannot be sent or edited is swallowed
\* by send_safe (the search placeholder that could not be sent ends the
\* handler with the send error and no job); a failure of send_document
\* travels through the finally clause to the except clause of the loop
TransportFailures ==
    /\ unhandled => (failure = "send_file" /\ wpc \in {"cleanup", "except"})
    /\ (wpc = "loop" /\ failure \in {"send_file", "report"})
       => (filepath /\ wlast = UnhandledMessage(data))

\* ------------------------------------------------------ download time-out
\* The runs of a download with its progress events: yt-dlp calls
\* _download_progress_hook with a status and the seconds elapsed while
\* download() is running on the worker thread.
download_timeout == 2
MaxElapsed == 4
ProgressStatus == {"downloading", "finished"}

\* a hook that never aborts
download_progress_hook_never(status, elapsed) == "ok"

\* _download_progress_hook, lines 816-828: "raise" when the download is aborted
download_progress_hook(status, elapsed) ==
    IF status # "finished" /\ elapsed > download_timeout THEN "raise" ELSE "ok"

\* one progress event of the running download.  When the hook raises,
\* extract_info is left, download() raises "Timed out" (line 791) and the
\* loop keeps the text of the exception (queue_processor.py:210-212);
\* otherwise the progress is shown on the target
WProgress(status, elapsed) ==
    /\ wpc = "download"
    /\ IF download_progress_hook(status, elapsed) = "raise"
       THEN /\ filepath' = FALSE
            /\ error_text' = Val("timeout")
            /\ failure' = "timeout"
            /\ wpc' = "final"
            /\ UNCHANGED wlast
       ELSE /\ wlast' = ProgressEdit(data, "", wlast)
            /\ UNCHANGED <<filepath, error_text, failure, wpc>>
    /\ UNCHANGED <<queue, queue_listener_thread, running, data, unhandled, log, done, cleanups,
                   temp_database, search_cache>>
    /\ UNCHANGED mainVars

WProgressEvent == \E status \in ProgressStatus, elapsed \in 0..MaxElapsed : WProgress(status, elapsed)

TimeoutWorker ==
    WGet \/ WProgressEvent \/ WDownload \/ WSendFile \/ WFinal \/ WCleanup \/ WExcept \/ WLoop

TimeoutNext == TimeoutWorker \/ Start \/ LiveDownload \/ Put \/ DwnNotify

TimeoutSpec == Init /\ [][TimeoutNext]_vars /\ WF_vars(TimeoutWorker)

\* C26: a progress event with a status other than finished and more seconds
\* elapsed than download_timeout aborts the download as a failure of the job:
\* no file, the job ends with the download error message on its target,
\* cleanup has run once, the worker has not ended and goes on to wait for the
\* next job.
C26_TimeoutIsJobFailure ==
    /\ [][ \A status \in ProgressStatus, elapsed \in 0..MaxElapsed :
             (status # "finished" /\ elapsed > download_timeout /\ WProgress(status, elapsed))
             => /\ wpc' = "final"
                /\ failure' = "timeout"
                /\ ~filepath'
                /\ ~IsNone(error_text') ]_vars
    /\ []((failure = "timeout")
          => /\ wpc \in {"final", "cleanup", "loop"}
             /\ ~unhandled
             /\ (wpc = "loop") => /\ wlast = FinalMessage(data, FALSE, error_text)
                                  /\ wlast.text[1] = "download_error"
                                  /\ cleanups[data.seq] = 1)
    /\ ((failure = "timeout") ~> (wpc = "get" /\ failure = "none"))

\* the download was aborted by a progress event after its progress had been
\* shown on the target
C26_Witness ==
    /\ wpc = "final"
    /\ failure = "timeout"
    /\ wlast.text = <<"download_progress", "">>
    /\ ~filepath

\* ---------------------------------------------------------------------
\* the runs from a search to a download: the worker answers the searches,
\* the user presses the buttons of the last message of the worker (a result,
\* the Back button of a final message) and of the last screen of a handler.
\* Every entry shown has been cached by the search that found it.
MetaJobs == 3

MetaSearch ==
    /\ nextSeq <= MetaJobs
    /\ \E c \in SessionChats, t \in QueueTexts : BotMessage(c, t)

MetaResultPress ==
    /\ ~IsNone(wlast.edit_message_id)
    /\ \E i \in 1..Len(wlast.markup) :
         QueryCallback(wlast.chat_id, wlast.edit_message_id.val, wlast.markup[i])

MetaScreenPress ==
    /\ nextSeq <= MetaJobs
    /\ ~IsNone(hlast.edit_message_id)
    /\ \E i \in 1..Len(hlast.markup) :
         QueryCallback(hlast.chat_id, hlast.edit_message_id.val, hlast.markup[i])

MetaNext ==
    \/ Start \/ Worker
    \/ MetaSearch \/ Put \/ MetaResultPress \/ MetaScreenPress
    \/ DwnNotify

MetaSpec == Init /\ [][MetaNext]_vars

\* the format screen of a catalog entry on the last message of a handler
FormatScreenOf(info) ==
    /\ main = "idle"
    /\ hlast.text = <<"format_select">>
    /\ ~IsNone(hlast.edit_message_id)
    /\ Len(hlast.markup) >= 1
    /\ hlast.markup[1][3] = info.extractor
    /\ hlast.markup[1][4] = info.id
    /\ hlast.markup[1][6] = "0"

\* C27: when the formats of an entry come with track and artist, the audio
\* button of its format screen is a download button, and pressing it (queue
\* not full) puts a Download job with author = artist and title = track in
\* the queue without showing the rename screen or waiting for a text.
C27_MetadataSkipsRename ==
    /\ [](\A info \in Media :
            (from_metadata(info) /\ FormatScreenOf(info)) => hlast.markup[1][1] = "dwn")
    /\ [][ \A info \in Media :
             ( /\ from_metadata(info)
               /\ FormatScreenOf(info)
               /\ ~full(queue)
               /\ QueryCallback(hlast.chat_id, hlast.edit_message_id.val, hlast.markup[1]) )
             => /\ main' = "dwn_put"
                /\ hlast' = hlast
                /\ pend'.action = "download"
                /\ pend'.chat_id = hlast.chat_id
                /\ pend'.extractor = Val(info.extractor)
                /\ pend'.id = Val(info.id)
                /\ pend'.is_video = FALSE
                /\ pend'.author = info.artist
                /\ pend'.title = info.track
                /\ ~AwaitingRenameText(temp_database', hlast.chat_id) ]_vars
    /\ [][ (main = "dwn_put" /\ main' # main)
             => queue' = Append(queue, [pend EXCEPT !.seq = nextSeq]) ]_vars

\* the audio button of the format screen of an entry with track and artist
\* has been pressed: its job waits for the put with the artist and the track
C27_Witness ==
    /\ main = "dwn_put"
    /\ hlast.text = <<"format_select">>
    /\ hlast.markup[1][1] = "dwn"
    /\ pend.author = Val("U")
    /\ pend.title = Val("S")

\* the button of result i on the job's edit target: "fmt", the target, the
\* extractor and the id of the result
ResultButton(job, i) ==
    <<"fmt", ToString(job.edit_message_id.val), job.search_results[i].extractor, job.search_results[i].id>>

\* C28: a Search job whose search gave no result edits its target to the
\* no-results text without buttons and stores that text with no markup under
\* search_result; a search with results edits the target to a screen with
\* exactly one button per result, in the order of the results, each carrying
\* "fmt", the job's edit target and the extractor and id of its result.
C28_SearchScreen ==
    [][ (wpc = "edit" /\ wpc' = "loop")
        => LET results == data.search_results
               sr == SearchResultOf(temp_database', data.chat_id)
           IN  /\ wlast'.chat_id = data.chat_id
               /\ wlast'.edit_message_id = data.edit_message_id
               /\ IF results = <<>>
                  THEN /\ wlast'.text = <<"search_no_results">>
                       /\ wlast'.markup = <<>>
                       /\ NodeGet(sr, <<"text">>) = Val(<<"search_no_results">>)
                       /\ IsNone(NodeGet(sr, <<"markup">>))
                  ELSE /\ wlast'.text # <<"search_no_results">>
                       /\ Len(wlast'.markup) = Len(results)
                       /\ \A i \in 1..Len(results) :
                            /\ wlast'.markup[i] = ResultButton(data, i)
                            /\ ~IsStale(ParseInt(wlast'.markup[i][2]), data.edit_message_id.val) ]_vars

\* a search with two results has edited its target: two buttons, the second
\* one for the second result
C28_Witness ==
    /\ wpc = "loop"
    /\ data.action = "search"
    /\ Len(data.search_results) = 2
    /\ Len(wlast.markup) = 2
    /\ wlast.markup[2] = ResultButton(data, 2)
    /\ wlast.markup[1] # wlast.markup[2]

\* ---------------------------------------------------------------------
\* guess_track_title() on strings: a string is a sequence of one-character
\* strings.  The titles are all strings up to MaxTitle characters over
\* letters in both cases, the space and a delimiter; the channels are the
\* strings up to MaxChannel characters (the empty one stands for None and
\* ""), a channel with the suffix " - Topic" and the channel "Unknown".
MaxTitle == 5
MaxChannel == 1
GuessAlphabet == {"a", "A", "b", " ", "-"}
Strings(n) == UNION {[1..k -> GuessAlphabet] : k \in 0..n}
TopicSuffix == <<" ", "-", " ", "T", "o", "p", "i", "c">>
Unknown == <<"U", "n", "k", "n", "o", "w", "n">>
GuessInputs ==
    (Strings(MaxTitle) \X (Strings(MaxChannel) \cup {<<"a">> \o TopicSuffix}))
    \cup { <<Unknown \o <<"-", "b">>, Unknown>>, <<Unknown, Unknown>>, <<<<"b">>, Unknown>> }

\* str.lower()
LowerChar(c) ==
    IF c = "A" THEN "a" ELSE IF c = "T" THEN "t" ELSE IF c = "U" THEN "u" ELSE c
Lower(str) == [i \in 1..Len(str) |-> LowerChar(str[i])]

\* channel.endswith(" - Topic")
EndsWith(str, suffix) ==
    Len(str) >= Len(suffix) /\ SubSeq(str, Len(str) - Len(suffix) + 1, Len(str)) = suffix

\* does the pattern match at position i, letter case ignored
MatchesAt(str, pattern, i) ==
    /\ i + Len(pattern) - 1 <= Len(str)
    /\ \A k \in 1..Len(pattern) : LowerChar(str[i + k - 1]) = LowerChar(pattern[k])

\* channel.lower() in title.lower()
Contains(str, pattern) == \E i \in 1..(Len(str) + 1) : MatchesAt(str, pattern, i)

\* re.sub(re.escape(pattern), "", str, flags=re.IGNORECASE), pattern not empty
RECURSIVE RemoveAll(_, _, _)
RemoveAll(str, pattern, i) ==
    IF i > Len(str) THEN <<>>
    ELSE IF MatchesAt(str, pattern, i) THEN RemoveAll(str, pattern, i + Len(pattern))
    ELSE <<str[i]>> \o RemoveAll(str, pattern, i + 1)

\* str.replace(delimiter, " ")
Replace(str, delimiter) == [i \in 1..Len(str) |-> IF str[i] = delimiter THEN " " ELSE str[i]]

\* for delimiter in ["-", em dash, ":", "_"]: track_name.replace(delimiter, " ").strip()
\* ("emdash" is the character U+2014)
StripDelimiters == <<"-", "emdash", ":", "_">>
RECURSIVE ReplaceDelimiters(_, _)
ReplaceDelimiters(str, k) ==
    IF k > Len(StripDelimiters) THEN str
    ELSE ReplaceDelimiters(Strip(Replace(str, StripDelimiters[k])), k + 1)

\* re.sub(" +", " ", str)
RECURSIVE CollapseSpaces(_, _)
CollapseSpaces(str, i) ==
    IF i > Len(str) THEN <<>>
    ELSE (IF str[i] = " " /\ i > 1 /\ str[i - 1] = " " THEN <<>> ELSE <<str[i]>>)
         \o CollapseSpaces(str, i + 1)

\* lines 62-70: the title without the name of the channel
TrackName(title, channel) ==
    Strip(CollapseSpaces(ReplaceDelimiters(Strip(RemoveAll(title, channel, 1)), 1), 1))

\* re.match(r"(.+?)\s*[-:,_ and em dash]\s*(.+)", title): the two groups, <<>> for no
\* match.  The first group is the shortest prefix after which spaces, one
\* delimiter and at least one more character follow; the spaces after the
\* delimiter go to \s* as long as a character is left for the second group.
MatchDelimiters == {"-", "emdash", ":", ",", "_"}
RECURSIVE SkipSpaces(_, _)
SkipSpaces(str, i) ==
    IF i <= Len(str) /\ str[i] = " " THEN SkipSpaces(str, i + 1) ELSE i
GroupEnds(str) ==
    {i \in 1..Len(str) :
        LET j == SkipSpaces(str, i + 1)
        IN  j < Len(str) /\ str[j] \in MatchDelimiters}
Match(str) ==
    IF GroupEnds(str) = {} THEN <<>>
    ELSE LET i == CHOOSE e \in GroupEnds(str) : \A f \in GroupEnds(str) : e <= f
             j == SkipSpaces(str, i + 1)
             k == SkipSpaces(str, j + 1)
         IN  <<SubSeq(str, 1, i),
               IF k <= Len(str) THEN SubSeq(str, k, Len(str)) ELSE SubSeq(str, Len(str), Len(str))>>

\* len(str.split(" "))
SplitLen(str) == 1 + Cardinality({i \in 1..Len(str) : str[i] = " "})

\* if pair not in results: results.append(pair)
InResults(results, pair) == \E i \in 1..Len(results) : results[i] = pair
AppendNew(results, pair) == IF InResults(results, pair) THEN results ELSE Append(results, pair)

\* lines 72-88: author and track name from the pattern
MatchGuesses(title) ==
    LET groups == Match(title)
        author == Strip(groups[1])
        track_name == Strip(groups[2])
    IN  IF groups = <<>> \/ author = <<>> \/ track_name = <<>> THEN <<>>
        ELSE IF SplitLen(track_name) > SplitLen(author)
        THEN AppendNew(<< <<author, track_name>> >>, <<track_name, author>>)
        ELSE AppendNew(<< <<track_name, author>> >>, <<author, track_name>>)

\* the name of the channel the function works with (lines 55-57)
ChannelName(channel) ==
    IF channel # <<>> /\ EndsWith(channel, TopicSuffix)
    THEN SubSeq(channel, 1, Len(channel) - 8) ELSE channel

\* a guess_track_title() that appends without looking at the results
GuessTrackTitle_append(title, channel) ==
    LET name == ChannelName(channel)
        r1 == IF name # <<>> /\ Contains(title, name) /\ TrackName(title, name) # <<>>
              THEN << <<name, TrackName(title, name)>> >> ELSE <<>>
        r2 == IF Len(r1) = 0 THEN MatchGuesses(title) ELSE r1
        r3 == IF name # <<>> THEN Append(r2, <<name, title>>) ELSE r2
    IN  Append(r3, <<Unknown, title>>)

\* guess_track_title(title, channel), lines 51-105
GuessTrackTitle(title, channel) ==
    LET name == ChannelName(channel)
        r1 == IF name # <<>> /\ Contains(title, name) /\ TrackName(title, name) # <<>>
              THEN << <<name, TrackName(title, name)>> >> ELSE <<>>
        r2 == IF Len(r1) = 0 THEN MatchGuesses(title) ELSE r1
        r3 == IF name # <<>> THEN AppendNew(r2, <<name, title>>) ELSE r2
    IN  AppendNew(r3, <<Unknown, title>>)

\* markup_rnm, line 448: the call and its return
GuessCall ==
    /\ main = "idle"
    /\ \E input \in GuessInputs :
         pend' = [action |-> "guess", title |-> input[1], channel |-> input[2], results |-> <<>>]
    /\ main' = "guess"
    /\ UNCHANGED <<queue, queue_listener_thread, temp_database, search_cache, hlast, nextSeq, nextMsg, stopped>>
    /\ UNCHANGED workerVars

GuessReturn ==
    /\ main = "guess"
    /\ pend' = [pend EXCEPT !.results = GuessTrackTitle(pend.title, pend.channel)]
    /\ main' = "guessed"
    /\ UNCHANGED <<queue, queue_listener_thread, temp_database, search_cache, hlast, nextSeq, nextMsg, stopped>>
    /\ UNCHANGED workerVars

GuessNext == GuessCall \/ GuessReturn
GuessSpec == Init /\ [][GuessNext]_vars

\* the list has no pair twice
NoDuplicates(results) ==
    \A i \in 1..Len(results), j \in 1..Len(results) : results[i] = results[j] => i = j

\* the name of the channel occurs in the title
ChannelInTitle ==
    /\ ChannelName(pend.channel) # <<>>
    /\ \E i \in 1..Len(pend.title) : MatchesAt(pend.title, ChannelName(pend.channel), i)

\* C29 as claimed: the list returned is not empty, has no pair twice and
\* ends with ('Unknown', title); when the name of the channel occurs in the
\* title it is (channel, title without the name and the delimiters),
\* (channel, title), ('Unknown', title).
C29_Original ==
    main = "guessed"
    => /\ pend.results # <<>>
       /\ NoDuplicates(pend.results)
       /\ pend.results[Len(pend.results)] = <<Unknown, pend.title>>
       /\ ChannelInTitle
          => pend.results = << <<ChannelName(pend.channel), TrackName(pend.title, ChannelName(pend.channel))>>,
                               <<ChannelName(pend.channel), pend.title>>,
                               <<Unknown, pend.title>> >>

\* C29 amended: the list returned is not empty, has no pair twice and ends
\* with ('Unknown', title).  When the name of the channel (without a
\* trailing " - Topic", letter case ignored) occurs in the title and
\* something is left of the title without the name and the delimiters, the
\* list is (channel, what is left), (channel, title), ('Unknown', title), the
\* last two being one entry when the channel is 'Unknown'.  When nothing is
\* left, the list has no entry for the stripped title and ends with
\* (channel, title), ('Unknown', title), again one entry for the channel
\* 'Unknown'.
C29_Guesses ==
    main = "guessed"
    => LET name == ChannelName(pend.channel)
           left == TrackName(pend.title, name)
           results == pend.results
       IN  /\ results # <<>>
           /\ NoDuplicates(results)
           /\ results[Len(results)] = <<Unknown, pend.title>>
           /\ (ChannelInTitle /\ left # <<>> /\ name # Unknown)
              => results = << <<name, left>>, <<name, pend.title>>, <<Unknown, pend.title>> >>
           /\ (ChannelInTitle /\ left # <<>> /\ name = Unknown)
              => results = << <<name, left>>, <<Unknown, pend.title>> >>
           /\ (ChannelInTitle /\ left = <<>>)
              => /\ ~InResults(results, <<name, left>>)
                 /\ name # Unknown
                    => /\ Len(results) >= 2
                       /\ results[Len(results) - 1] = <<name, pend.title>>

\* the channel "A" occurs in the title "a - b": the stripped title, the
\* title under the channel, the title under 'Unknown'
C29_Witness ==
    /\ main = "guessed"
    /\ pend.title = <<"a", " ", "-", " ", "b">>
    /\ pend.channel = <<"A">>
    /\ pend.results = << << <<"A">>, <<"b">> >>, << <<"A">>, pend.title >>, << Unknown, pend.title >> >>

\* ---------------------------------------------------------------------
\* the progress bar of _progress_callback: the fraction in thousandths
\* (0 is 0.0, 1000 is 1.0), the width of the bar from 1 to MaxBar
MaxBar == 10
Fractions == 0..1000
BarLengths == 1..MaxBar

\* a bar that is filled in proportion only
progress_bar_ones_floor(progress, progress_bar_length) == (progress * progress_bar_length) \div 1000

\* line 312: max(1, int(progress * progress_bar_length))
progress_bar_ones(progress, progress_bar_length) ==
    IF (progress * progress_bar_length) \div 1000 > 1
    THEN (progress * progress_bar_length) \div 1000 ELSE 1

\* line 313
progress_bar_zeros(progress, progress_bar_length) ==
    progress_bar_length - progress_bar_ones(progress, progress_bar_length)

\* unit * n: n times the unit, nothing when n is not positive
Times(unit, n) == [i \in 1..n |-> unit]

\* lines 314-315
progress_bar(progress, progress_bar_length) ==
    Times("download_progress_1", progress_bar_ones(progress, progress_bar_length))
    \o Times("download_progress_0", progress_bar_zeros(progress, progress_bar_length))

\* a progress event reaches the callback
BarEvent ==
    /\ wpc = "none"
    /\ \E progress \in Fractions, progress_bar_length \in BarLengths :
         pend' = [action |-> "progress", progress |-> progress,
                  progress_bar_length |-> progress_bar_length]
    /\ wpc' = "progress"
    /\ UNCHANGED <<queue, queue_listener_thread, running, data, filepath, error_text, unhandled,
                   failure, wlast, log, done, cleanups, temp_database, search_cache>>
    /\ UNCHANGED <<main, hlast, nextSeq, nextMsg, stopped>>

\* the callback renders the bar
BarRender ==
    /\ wpc = "progress"
    /\ wlast' = Msg(1, IntV(1), progress_bar(pend.progress, pend.progress_bar_length), <<>>)
    /\ wpc' = "rendered"
    /\ UNCHANGED <<queue, queue_listener_thread, running, data, filepath, error_text, unhandled,
                   failure, log, done, cleanups, temp_database, search_cache>>
    /\ UNCHANGED mainVars

BarNext == BarEvent \/ BarRender
BarSpec == Init /\ [][BarNext]_vars

\* the filled and the empty units of the bar that was rendered
Filled == {i \in 1..Len(wlast.text) : wlast.text[i] = "download_progress_1"}
Empty == {i \in 1..Len(wlast.text) : wlast.text[i] = "download_progress_0"}

\* C30: for a fraction p in [0, 1] and a width W >= 1 the bar has exactly W
\* units, the filled ones first; once p > 0, max(1, floor(p * W)) units are
\* filled (p = 0.5, W = 10: 5 filled and 5 empty; p = 0.01, W = 10: 1 filled
\* and 9 empty); the number of empty units is never negative.
C30_ProgressBar ==
    wpc = "rendered"
    => LET p == pend.progress
           W == pend.progress_bar_length
           floor == CHOOSE n \in 0..W : n * 1000 <= p * W /\ p * W < (n + 1) * 1000
       IN  /\ Len(wlast.text) = W
           /\ Filled \cup Empty = 1..W
           /\ \A i \in Filled, j \in Empty : i < j
           /\ p > 0 => Cardinality(Filled) = (IF floor > 1 THEN floor ELSE 1)
           /\ Cardinality(Empty) = W - Cardinality(Filled)
           /\ Cardinality(Empty) >= 0
           /\ (p = 500 /\ W = 10) => (Cardinality(Filled) = 5 /\ Cardinality(Empty) = 5)
           /\ (p = 10 /\ W = 10) => (Cardinality(Filled) = 1 /\ Cardinality(Empty) = 9)

\* the fraction 0.01 on a bar of width 10: one filled unit, nine empty ones
C30_Witness ==
    /\ wpc = "rendered"
    /\ pend.progress = 10
    /\ pend.progress_bar_length = 10
    /\ wlast.text = <<"download_progress_1">> \o Times("download_progress_0", 9)

\* ---------------------------------------------------------------------
\* the progress messages of the downloads.  pend holds the fields of the two
\* processors the progress flows through and what the chat has seen:
\*   now               time.time(), in ticks
\*   progress_timer    QueueProcessor._progress_timer
\*   progress_message  QueueProcessor._progress_message
\*   progress          YTDlPProcessor._progress, in thousandths
\*   job, events       the number of the download and of its progress events
\*   computed          the last fraction computed from counts within the job
\*   reported          the fraction of the last event handed to the callback
\*   edits             the progress edits sent for the job: time, text, stage
\*   skipped           callbacks since the last edit that sent nothing
\* One callback runs within one tick.
progress_edit_interval == 2
MaxClock == 8
ProgressJobs == 2
MaxEvents == 3
ProgressFractions == {0, 500, 1000}
Stages == {"", "Metadata"}
NoCounts == [kind |-> "nocounts"]

\* a throttle that lets every callback through
Throttled_never(now, progress_timer) == FALSE
\* lines 297-301: the callback comes too early after the one that set the timer
Throttled(now, progress_timer) ==
    ~(now - (IF IsNone(progress_timer) THEN 0 ELSE progress_timer.val) > progress_edit_interval)

\* a comparison that finds every message new
SameMessage_never(message, progress_message) == FALSE
\* line 354: message != self._progress_message
SameMessage(message, progress_message) == Val(message) = progress_message

\* lines 304-351: the text rendered from the stage and the fraction
ProgressMessage(progress, stage) == <<"download_progress", stage, ToString(progress)>>

\* _progress_callback(progress_data, (chat_id, edit_message_id)) on the fields o
progress_callback(o, progress, stage, edit_message_id) ==
    IF Throttled(o.now, o.progress_timer)
    THEN [o EXCEPT !.progress_timer = IF IsNone(@) THEN IntV(0) ELSE @,
                   !.skipped = @ + 1]
    ELSE IF IsNone(edit_message_id) \/ edit_message_id.val < 0
    THEN [o EXCEPT !.progress_timer = IntV(o.now)]
    ELSE IF SameMessage(ProgressMessage(progress, stage), o.progress_message)
    THEN [o EXCEPT !.progress_timer = IntV(o.now),
                   !.progress_message = Val(ProgressMessage(progress, stage)),
                   !.skipped = @ + 1]
    ELSE [o EXCEPT !.progress_timer = IntV(o.now),
                   !.progress_message = Val(ProgressMessage(progress, stage)),
                   !.edits = Append(@, [time |-> o.now, text |-> ProgressMessage(progress, stage),
                                        stage |-> stage]),
                   !.skipped = 0]

\* _download_progress_hook, lines 832-848: the fraction from the counts of
\* the event, the stored one when the event has none
hook_progress(o, counts) == IF counts = NoCounts THEN o.progress ELSE counts.val

\* QueueProcessor.__init__ and YTDlPProcessor.__init__; the thread starts
ProgressInit ==
    /\ wpc = "none"
    /\ pend' = [action |-> "progress", now |-> progress_edit_interval + 1,
                progress_timer |-> NoneV, progress_message |-> NoneV, progress |-> 0,
                job |-> 0, events |-> 0, computed |-> NoneV, reported |-> 0,
                edits |-> <<>>, skipped |-> 0]
    /\ wpc' = "get"
    /\ UNCHANGED <<queue, queue_listener_thread, running, data, filepath, error_text, unhandled,
                   failure, wlast, log, done, cleanups, temp_database, search_cache>>
    /\ UNCHANGED <<main, hlast, nextSeq, nextMsg, stopped>>

\* time passes
ProgressTick ==
    /\ wpc \in {"get", "download", "send_file", "final"}
    /\ pend.now < MaxClock
    /\ pend' = [pend EXCEPT !.now = @ + 1]
    /\ UNCHANGED <<queue, queue_listener_thread, running, wpc, data, filepath, error_text, unhandled,
                   failure, wlast, log, done, cleanups, temp_database, search_cache>>
    /\ UNCHANGED <<main, hlast, nextSeq, nextMsg, stopped>>

\* lines 189-194: a Download job is taken, timer and message are forgotten
ProgressJob ==
    /\ wpc = "get"
    /\ pend.job < ProgressJobs
    /\ \E edit_message_id \in {IntV(1), NoneV} :
         data' = [DownloadJob(1, edit_message_id, Val("youtube"), Val("a"), Val("f1"), FALSE,
                              NoneV, NoneV, NoneV) EXCEPT !.seq = pend.job + 1]
    /\ pend' = [pend EXCEPT !.job = @ + 1, !.events = 0, !.progress_timer = NoneV,
                            !.progress_message = NoneV, !.computed = NoneV, !.edits = <<>>,
                            !.skipped = 0]
    /\ wpc' = "download"
    /\ UNCHANGED <<queue, queue_listener_thread, running, filepath, error_text, unhandled,
                   failure, wlast, log, done, cleanups, temp_database, search_cache>>
    /\ UNCHANGED <<main, hlast, nextSeq, nextMsg, stopped>>

\* the edit of the callback, if it sent one
ProgressSent(o, last) ==
    IF Len(o.edits) > Len(pend.edits)
    THEN Msg(data.chat_id, data.edit_message_id, o.edits[Len(o.edits)].text, <<>>)
    ELSE last

\* _download_progress_hook on one event of the download
ProgressEvent ==
    /\ wpc = "download"
    /\ pend.events < MaxEvents
    /\ \E status \in ProgressStatus, elapsed \in {0, MaxElapsed},
          counts \in {NoCounts} \cup {IntV(f) : f \in ProgressFractions}, stage \in Stages :
         IF download_progress_hook(status, elapsed) = "raise"
         THEN /\ wpc' = "final"
              /\ error_text' = Val("timeout")
              /\ pend' = [pend EXCEPT !.events = @ + 1]
              /\ UNCHANGED wlast
         ELSE LET progress == hook_progress(pend, counts)
                  o == progress_callback([pend EXCEPT !.events = @ + 1,
                                                      !.progress = progress,
                                                      !.computed = IF counts = NoCounts THEN @ ELSE counts,
                                                      !.reported = progress],
                                         progress, stage, data.edit_message_id)
              IN  /\ pend' = o
                  /\ wlast' = ProgressSent(o, wlast)
                  /\ UNCHANGED <<wpc, error_text>>
    /\ UNCHANGED <<queue, queue_listener_thread, running, data, filepath, unhandled,
                   failure, log, done, cleanups, temp_database, search_cache>>
    /\ UNCHANGED <<main, hlast, nextSeq, nextMsg, stopped>>

\* download() returns the path of the file, or None, or raises
ProgressDownloaded ==
    /\ wpc = "download"
    /\ \E ok \in BOOLEAN :
         /\ wpc' = IF ok THEN "send_file" ELSE "final"
         /\ error_text' = IF ok THEN NoneV ELSE Val("error")
    /\ UNCHANGED <<queue, queue_listener_thread, running, data, filepath, unhandled,
                   failure, wlast, log, done, cleanups, temp_database, search_cache>>
    /\ UNCHANGED mainVars

\* lines 217-223: the timer is forgotten and the callback is called once more
ProgressSendFile ==
    /\ wpc = "send_file"
    /\ LET o == progress_callback([pend EXCEPT !.progress_timer = NoneV], 1000, "Sending file",
                                  data.edit_message_id)
       IN  /\ pend' = o
           /\ wlast' = ProgressSent(o, wlast)
    /\ wpc' = "final"
    /\ UNCHANGED <<queue, queue_listener_thread, running, data, filepath, error_text, unhandled,
                   failure, log, done, cleanups, temp_database, search_cache>>
    /\ UNCHANGED <<main, hlast, nextSeq, nextMsg, stopped>>

\* lines 224-263: the file, the final message and the cleanup
ProgressFinal ==
    /\ wpc = "final"
    /\ wlast' = FinalMessage(data, IsNone(error_text), error_text)
    /\ wpc' = "get"
    /\ UNCHANGED <<queue, queue_listener_thread, running, data, filepath, error_text, unhandled,
                   failure, log, done, cleanups, temp_database, search_cache>>
    /\ UNCHANGED mainVars

ProgressNext ==
    \/ ProgressInit \/ ProgressTick \/ ProgressJob \/ ProgressEvent
    \/ ProgressDownloaded \/ ProgressSendFile \/ ProgressFinal
ProgressSpec == Init /\ [][ProgressNext]_vars

\* the progress edits of the job came more than the interval apart
Separated(edits) ==
    \A i \in 1..Len(edits), j \in 1..Len(edits) :
        i < j => edits[j].time - edits[i].time > progress_edit_interval

\* C31 as claimed: within one Download job any two progress edits are more
\* than progress_edit_interval apart, the 'Sending file' update included.
C31_Original == pend.action = "progress" => Separated(pend.edits)

\* C31 amended: within one Download job any two progress edits caused by
\* the events of the download are more than progress_edit_interval apart,
\* however many events arrive in between.  The 'Sending file' update after a
\* successful download is not throttled: the timer is forgotten before it,
\* and it is sent at once whenever the job has a message to edit.
C31_Throttle ==
    /\ [](pend.action = "progress"
          => Separated(SelectSeq(pend.edits, LAMBDA e : e.stage # "Sending file")))
    /\ [][ (wpc = "send_file" /\ wpc' = "final" /\ ~IsNone(data.edit_message_id))
           => /\ Len(pend'.edits) = Len(pend.edits) + 1
              /\ pend'.edits[Len(pend'.edits)].stage = "Sending file"
              /\ pend'.edits[Len(pend'.edits)].time = pend.now ]_vars

\* three events of one download: the first and the third sent an edit, the
\* second came too early and sent nothing
C31_Witness ==
    /\ pend.action = "progress"
    /\ wpc = "download"
    /\ pend.events = 3
    /\ Len(pend.edits) = 2
    /\ pend.edits[2].time - pend.edits[1].time > progress_edit_interval
    /\ pend.skipped = 0

\* C32: within one Download job no progress edit is sent whose text equals
\* the text of the progress edit sent before it for that job, and the
\* remembered text is reset when a Download job starts.
C32_NoRepeatedText ==
    /\ [](pend.action = "progress"
          => /\ \A i \in 1..(Len(pend.edits) - 1) : pend.edits[i].text # pend.edits[i + 1].text
             /\ pend.edits # <<>>
                => pend.progress_message = Val(pend.edits[Len(pend.edits)].text))
    /\ [][ (wpc = "get" /\ wpc' = "download")
           => (IsNone(pend'.progress_message) /\ pend'.edits = <<>>) ]_vars

\* the second event of a download came late enough for an edit, rendered
\* the text of the first one and sent nothing
C32_Witness ==
    /\ pend.action = "progress"
    /\ wpc = "download"
    /\ pend.events = 2
    /\ Len(pend.edits) = 1
    /\ pend.now - pend.edits[1].time > progress_edit_interval
    /\ pend.progress_timer = IntV(pend.now)
    /\ pend.skipped = 1

\* C40 as claimed: when a progress event of the current job carries no
\* counts, the fraction reported for it is the last fraction computed within
\* the current job, 0 if there is none yet.
C40_Original ==
    [][ (wpc = "download" /\ wpc' = "download" /\ pend'.events = pend.events + 1
         /\ pend'.computed = pend.computed)
        => pend'.reported = (IF IsNone(pend.computed) THEN 0 ELSE pend.computed.val) ]_vars

\* what the code does: the stored fraction is set to 0 when the processor is
\* built and never again, so the event reports the last fraction computed
\* by any download
ReportsStoredFraction ==
    [][ (wpc = "download" /\ wpc' = "download" /\ pend'.events = pend.events + 1
         /\ pend'.computed = pend.computed)
        => pend'.reported = pend.progress ]_vars

\* ---------------------------------------------------------------------
\* get_formats() on the streams of an information dictionary.  A stream has
\* its format_id (the streams of one dictionary have different ones), its
\* filesize, audio_ext and video_ext (None stands for "none" and for a
\* missing one), its resolution (None for "audio only") and its bitrates abr
\* and vbr after the fallback to tbr (None when neither is there).
MaxStreams == 3
max_file_size == 2
StreamBitrates == {NoneV, IntV(64), IntV(128), IntV(320)}
StreamSizes == {max_file_size, max_file_size + 1}
AudioStreams ==
    [filesize : StreamSizes, audio_ext : {Val("m4a")}, video_ext : {NoneV},
     resolution : {NoneV}, abr : StreamBitrates, vbr : {NoneV}]
VideoStreams ==
    [filesize : StreamSizes, audio_ext : {NoneV}, video_ext : {Val("mp4")},
     resolution : {NoneV, Val("640x360"), Val("1280x720")}, abr : {NoneV}, vbr : StreamBitrates]
OtherStreams ==
    { [filesize |-> 0, audio_ext |-> NoneV, video_ext |-> NoneV,
       resolution |-> NoneV, abr |-> IntV(128), vbr |-> IntV(128)] }
StreamLists == UNION {[1..n -> AudioStreams \cup VideoStreams \cup OtherStreams] : n \in 0..MaxStreams}

\* the stream at position i of info["formats"]
StreamAt(formats, i) ==
    [format_id |-> "f" \o ToString(i), filesize |-> formats[i].filesize,
     audio_ext |-> formats[i].audio_ext, video_ext |-> formats[i].video_ext,
     resolution |-> formats[i].resolution, abr |-> formats[i].abr, vbr |-> formats[i].vbr]

\* lines 569-605: the stream passes the checks of the loop
Admitted(format_) ==
    /\ format_.format_id # ""
    /\ ~(format_.filesize > max_file_size)
    /\ ~(IsNone(format_.audio_ext) /\ IsNone(format_.video_ext))
    /\ ~( \/ (~IsNone(format_.audio_ext) /\ IsNone(format_.abr))
          \/ (~IsNone(format_.video_ext) /\ (IsNone(format_.vbr) \/ IsNone(format_.resolution))) )

\* lines 607-611: the two lists the admitted streams go to, in their order
RECURSIVE Collect(_, _, _)
Collect(formats, i, audio) ==
    IF i > Len(formats) THEN <<>>
    ELSE LET format_ == StreamAt(formats, i)
         IN  (IF Admitted(format_) /\ (audio <=> ~IsNone(format_.audio_ext))
              THEN << IF audio
                      THEN [id |-> format_.format_id, bitrate |-> format_.abr.val]
                      ELSE [id |-> format_.format_id, resolution |-> format_.resolution.val,
                            bitrate |-> format_.vbr.val] >>
              ELSE <<>>)
             \o Collect(formats, i + 1, audio)

\* sorted(list, key=bitrate, reverse=True): streams of one bitrate keep their order
RECURSIVE InsertByBitrate(_, _)
InsertByBitrate(sorted, format_) ==
    IF sorted = <<>> THEN <<format_>>
    ELSE IF Head(sorted).bitrate >= format_.bitrate
    THEN <<Head(sorted)>> \o InsertByBitrate(Tail(sorted), format_)
    ELSE <<format_>> \o sorted
RECURSIVE SortedByBitrate(_, _)
SortedByBitrate(list, n) ==
    IF n = 0 THEN <<>> ELSE InsertByBitrate(SortedByBitrate(list, n - 1), list[n])

\* an audio candidate that is the first admitted stream
BestAudio_first(audio_formats_, video_formats_) ==
    IF Len(audio_formats_) # 0
    THEN << [id |-> audio_formats_[1].id, bitrate |-> audio_formats_[1].bitrate] >>
    ELSE IF Len(video_formats_) # 0
    THEN << [id |-> video_formats_[Len(video_formats_) \div 2 + 1].id,
             bitrate |-> video_formats_[Len(video_formats_) \div 2 + 1].bitrate] >>
    ELSE <<>>

\* lines 619-647: the best audio stream, else the video stream in the middle
BestAudio(audio_formats_, video_formats_) ==
    IF Len(audio_formats_) # 0
    THEN LET sorted == SortedByBitrate(audio_formats_, Len(audio_formats_))
         IN  << [id |-> sorted[1].id, bitrate |-> sorted[1].bitrate] >>
    ELSE IF Len(video_formats_) # 0
    THEN << [id |-> video_formats_[Len(video_formats_) \div 2 + 1].id,
             bitrate |-> video_formats_[Len(video_formats_) \div 2 + 1].bitrate] >>
    ELSE <<>>

\* a suffix that is added whenever there is an audio candidate
additional_format_always(audio_formats, id_) ==
    IF Len(audio_formats) # 0 THEN "+" \o audio_formats[1].id ELSE ""

\* lines 662-666
additional_format(audio_formats, id_) ==
    IF Len(audio_formats) # 0 /\ audio_formats[1].id # id_
    THEN "+" \o audio_formats[1].id ELSE ""

\* lines 650-676: one stream per resolution, the first of the sorted list
RECURSIVE UniqueResolutions(_, _, _)
UniqueResolutions(video_formats_, i, audio_formats) ==
    IF i = 0 THEN <<>>
    ELSE LET video_formats == UniqueResolutions(video_formats_, i - 1, audio_formats)
             format_ == video_formats_[i]
         IN  IF \E k \in 1..Len(video_formats) : video_formats[k].resolution = format_.resolution
             THEN video_formats
             ELSE Append(video_formats,
                         [id |-> format_.id \o additional_format(audio_formats, format_.id),
                          resolution |-> format_.resolution, bitrate |-> format_.bitrate])

\* get_formats(), lines 569-679: the audio and the video candidates
get_formats(formats) ==
    LET audio_formats_ == Collect(formats, 1, TRUE)
        collected == Collect(formats, 1, FALSE)
        video_formats_ == SortedByBitrate(collected, Len(collected))
        audio_formats == BestAudio(audio_formats_, video_formats_)
    IN  [audio_formats |-> audio_formats,
         video_formats |-> UniqueResolutions(video_formats_, Len(video_formats_), audio_formats)]

\* markup_fmt, line 314: the call and its return
FormatsCall ==
    /\ main = "idle"
    /\ \E formats \in StreamLists :
         pend' = [action |-> "formats", formats |-> formats, audio_formats |-> <<>>, video_formats |-> <<>>]
    /\ main' = "formats"
    /\ UNCHANGED <<queue, queue_listener_thread, temp_database, search_cache, hlast, nextSeq, nextMsg, stopped>>
    /\ UNCHANGED workerVars

FormatsReturn ==
    /\ main = "formats"
    /\ pend' = [pend EXCEPT !.audio_formats = get_formats(pend.formats).audio_formats,
                            !.video_formats = get_formats(pend.formats).video_formats]
    /\ main' = "classified"
    /\ UNCHANGED <<queue, queue_listener_thread, temp_database, search_cache, hlast, nextSeq, nextMsg, stopped>>
    /\ UNCHANGED workerVars

FormatsNext == FormatsCall \/ FormatsReturn
FormatsSpec == Init /\ [][FormatsNext]_vars

\* the positions of the admitted audio and video streams of the call
AdmittedAudio ==
    {i \in 1..Len(pend.formats) :
        Admitted(StreamAt(pend.formats, i)) /\ ~IsNone(pend.formats[i].audio_ext)}
AdmittedVideo ==
    {i \in 1..Len(pend.formats) :
        Admitted(StreamAt(pend.formats, i)) /\ IsNone(pend.formats[i].audio_ext)}
Rejected ==
    {i \in 1..Len(pend.formats) :
        \/ pend.formats[i].filesize > max_file_size
        \/ (IsNone(pend.formats[i].audio_ext) /\ IsNone(pend.formats[i].video_ext))}

\* the format id of the stream at position i
IdAt(i) == "f" \o ToString(i)

\* stream i stands at index k (from 0) of some descending order of the video streams
AtIndex(i, k) ==
    /\ Cardinality({j \in AdmittedVideo : pend.formats[j].vbr.val > pend.formats[i].vbr.val}) <= k
    /\ Cardinality({j \in AdmittedVideo : pend.formats[j].vbr.val >= pend.formats[i].vbr.val}) > k

\* C33: at most one audio candidate is returned.  With admitted audio
\* streams it is one of the highest bitrate among them ([64, 128, 320] give
\* the 320 entry); with none but admitted video streams it is the video
\* stream at index floor(n/2) of the video streams in descending order of
\* bitrate; a stream over the maximum size or without a usable extension is
\* never returned, neither as the audio candidate nor as a video candidate.
C33_AudioCandidate ==
    main = "classified"
    => LET audio == pend.audio_formats
           video == pend.video_formats
       IN  /\ Len(audio) <= 1
           /\ AdmittedAudio # {}
              => /\ Len(audio) = 1
                 /\ \E i \in AdmittedAudio :
                      /\ audio[1].id = IdAt(i)
                      /\ audio[1].bitrate = pend.formats[i].abr.val
                      /\ \A j \in AdmittedAudio : pend.formats[j].abr.val <= pend.formats[i].abr.val
           /\ (AdmittedAudio = {} /\ AdmittedVideo # {})
              => /\ Len(audio) = 1
                 /\ \E i \in AdmittedVideo :
                      /\ audio[1].id = IdAt(i)
                      /\ audio[1].bitrate = pend.formats[i].vbr.val
                      /\ AtIndex(i, Cardinality(AdmittedVideo) \div 2)
           /\ (AdmittedAudio = {} /\ AdmittedVideo = {}) => audio = <<>>
           /\ \A i \in Rejected :
                /\ \A k \in 1..Len(audio) : audio[k].id # IdAt(i)
                /\ \A k \in 1..Len(video) :
                     /\ video[k].id # IdAt(i)
                     /\ \A a \in 1..Len(audio) : video[k].id # IdAt(i) \o "+" \o audio[a].id

\* the audio streams 64, 128 and 320: the candidate is the third stream
C33_Witness ==
    /\ main = "classified"
    /\ Len(pend.formats) = 3
    /\ AdmittedAudio = {1, 2, 3}
    /\ pend.formats[1].abr = IntV(64)
    /\ pend.formats[2].abr = IntV(128)
    /\ pend.formats[3].abr = IntV(320)
    /\ pend.audio_formats = << [id |-> "f3", bitrate |-> 320] >>

\* C34: the video candidates have pairwise different resolutions, each is
\* an admitted video stream of the highest bitrate of its resolution (every
\* resolution has its candidate), the list is in descending order of
\* bitrate, and the format id of a candidate is the id of its stream,
\* followed by "+" and the id of the audio candidate exactly when there is an
\* audio candidate with another id.
C34_VideoCandidates ==
    main = "classified"
    => LET audio == pend.audio_formats
           video == pend.video_formats
       IN  /\ \A k \in 1..Len(video), l \in 1..Len(video) :
                /\ video[k].resolution = video[l].resolution => k = l
                /\ k < l => video[k].bitrate >= video[l].bitrate
           /\ \A k \in 1..Len(video) :
                \E i \in AdmittedVideo :
                    /\ video[k].resolution = pend.formats[i].resolution.val
                    /\ video[k].bitrate = pend.formats[i].vbr.val
                    /\ \A j \in AdmittedVideo :
                         pend.formats[j].resolution = pend.formats[i].resolution
                         => pend.formats[j].vbr.val <= pend.formats[i].vbr.val
                    /\ video[k].id = (IF Len(audio) = 1 /\ audio[1].id # IdAt(i)
                                      THEN IdAt(i) \o "+" \o audio[1].id ELSE IdAt(i))
           /\ \A i \in AdmittedVideo :
                \E k \in 1..Len(video) : video[k].resolution = pend.formats[i].resolution.val

\* two video streams of one resolution and no audio stream: the stream of
\* the higher bitrate is the video candidate, the other one the audio
\* candidate, whose id the video candidate carries
C34_Witness ==
    /\ main = "classified"
    /\ Len(pend.formats) = 2
    /\ AdmittedVideo = {1, 2}
    /\ pend.formats[1].resolution = pend.formats[2].resolution
    /\ pend.formats[1].vbr = IntV(320)
    /\ pend.formats[2].vbr = IntV(64)
    /\ pend.audio_formats = << [id |-> "f2", bitrate |-> 64] >>
    /\ Len(pend.video_formats) = 1
    /\ pend.video_formats[1].id = "f1+f2"

\* the lines of result i: its header, when it is the first result or comes
\* from another extractor than the result before it, and its numbered entry
ResultLines(results, i) ==
    (IF i = 1 \/ results[i].extractor # results[i - 1].extractor
     THEN <<"header:" \o results[i].extractor>> ELSE <<>>)
    \o <<"result:" \o ToString(i) \o ":" \o results[i].id>>
RECURSIVE LinesUpTo(_, _)
LinesUpTo(results, n) ==
    IF n = 0 THEN <<>> ELSE LinesUpTo(results, n - 1) \o ResultLines(results, n)

\* C35: for the results r1..rn of a search the transcript stored and
\* rendered lists the results in their order, numbered 1..n, with the header
\* of the extractor immediately before r_i exactly when i = 1 or r_i comes
\* from another extractor than r_(i-1); the results are not sorted, so an
\* extractor gets a header each time its results start again.
C35_Transcript ==
    [][ (wpc = "edit" /\ wpc' = "loop" /\ data.search_results # <<>>)
        => LET results == data.search_results
               lines == LinesUpTo(results, Len(results)) \o <<"search_result_suffix">>
           IN  /\ wlast'.text = lines
               /\ NodeGet(SearchResultOf(temp_database', data.chat_id), <<"text">>) = Val(lines) ]_vars

\* a search gave a result of one extractor, one of another and one of the
\* first again: three headers
C35_Witness ==
    /\ wpc = "loop"
    /\ data.action = "search"
    /\ Len(data.search_results) = 3
    /\ data.search_results[1].extractor = "youtube"
    /\ wlast.text = <<"header:youtube", "result:1:a", "header:soundcloud", "result:2:b",
                      "header:youtube", "result:3:a", "search_result_suffix">>

\* ---------------------------------------------------------------------
\* the runs with screens on two messages of one chat.  Two searches of the
\* chat have been answered: the messages 1 and 2 show their results, the
\* entries are cached, the store holds the result of the second search.
\* While the main thread is idle, pend holds the buttons each message shows;
\* the user presses a button one of the messages shows, or a client sends
\* callback data the program has never attached to a message.
ScreenMedia ==
    Media \cup { [extractor |-> "youtube", id |-> "c", fulltitle |-> "H", channel |-> "G",
                  track |-> NoneV, artist |-> NoneV] }
ScreenResults == << CHOOSE m \in ScreenMedia : m.id = "a", CHOOSE m \in ScreenMedia : m.id = "b",
                    CHOOSE m \in ScreenMedia : m.id = "c" >>
ForeignPayloads == { <<"rnm", ToString(m), "youtube", "a", "f1", "0", "">> : m \in MsgIds }
\* the jobs enqueued in one run
ScreenJobs == 1

\* the buttons the messages show after the handler result r
Shown(screens, r) ==
    IF ~IsNone(r.msg.edit_message_id) /\ r.msg.edit_message_id.val \in DOMAIN screens
    THEN [screens EXCEPT ![r.msg.edit_message_id.val] = r.msg.markup]
    ELSE screens

ScreensInit ==
    /\ main = "idle"
    /\ pend = NoJob
    /\ search_cache = {}
    /\ nextMsg = 1
    /\ search_cache' = {ScreenResults[i] : i \in 1..Len(ScreenResults)}
    /\ temp_database' = StoreSearchResult(
                            StoreSearchResult(temp_database, SearchJob(1, IntV(1), <<"s", "o">>), ScreenResults),
                            SearchJob(1, IntV(MaxMsg), <<"s", "o">>), ScreenResults)
    /\ pend' = [action |-> "screens",
                screens |-> [m \in MsgIds |-> SearchButtons(IntV(m), ScreenResults)]]
    /\ nextMsg' = MaxMsg + 1
    /\ UNCHANGED <<queue, queue_listener_thread, main, hlast, nextSeq, stopped>>
    /\ UNCHANGED workerVars

\* query_callback on callback data p sent for message m, with the put and
\* the "download started" edit of markup_dwn when a job results (the worker
\* does not run here)
ScreensCallback(m, p) ==
    /\ main = "idle"
    /\ pend.action = "screens"
    /\ LET r == query_callback(temp_database, queue, search_cache, hlast, 1, m, p)
           started == IF IsNone(r.pend.edit_message_id) THEN r.msg
                      ELSE Msg(r.pend.chat_id,
                               IF r.pend.edit_message_id.val >= 0 THEN r.pend.edit_message_id ELSE NoneV,
                               <<"download_started">>, <<>>)
       IN  /\ temp_database' = r.db
           /\ IF r.main = "idle"
              THEN /\ hlast' = r.msg
                   /\ pend' = [pend EXCEPT !.screens = Shown(pend.screens, r)]
                   /\ UNCHANGED <<queue, nextSeq>>
              ELSE /\ can_put(queue)
                   /\ nextSeq <= ScreenJobs
                   /\ queue' = put(queue, [r.pend EXCEPT !.seq = nextSeq])
                   /\ nextSeq' = nextSeq + 1
                   /\ hlast' = started
                   /\ pend' = [pend EXCEPT !.screens = Shown(pend.screens, [msg |-> started])]
    /\ UNCHANGED <<queue_listener_thread, search_cache, main, nextMsg, stopped>>
    /\ UNCHANGED workerVars

ScreensPress ==
    /\ pend.action = "screens"
    /\ \E m \in MsgIds : \E i \in 1..Len(pend.screens[m]) : ScreensCallback(m, pend.screens[m][i])

ScreensForeign == \E m \in MsgIds, p \in ForeignPayloads : ScreensCallback(m, p)

\* the worker takes the oldest job
ScreensTaken ==
    /\ queue # <<>>
    /\ queue' = Tail(queue)
    /\ UNCHANGED <<queue_listener_thread, temp_database, search_cache>>
    /\ UNCHANGED mainVars
    /\ UNCHANGED workerVars

ScreensNext == ScreensInit \/ ScreensPress \/ ScreensForeign \/ ScreensTaken
ScreensSpec == Init /\ [][ScreensNext]_vars

\* the Rename action whose bitrate field decodes to None has rendered the
\* rename screen on message m
RenameUnspecified(m, p) ==
    /\ p[1] = "rnm"
    /\ IsNone(ParseBitrate(p[7]))
    /\ ScreensCallback(m, p)
    /\ hlast'.text = <<"rename_audio">>

\* the job the button b of the screen just rendered on message m enqueues
PressedNext(m, b) == query_callback(temp_database', queue', search_cache', hlast', 1, m, b)

\* C39: a bitrate that is unspecified when the Rename action is decoded
\* stays unspecified through the rename flow: the Download job enqueued by
\* the following RenameThenDownload carries an absent bitrate.
C39_Original ==
    [][\A m \in MsgIds, p \in ForeignPayloads :
         RenameUnspecified(m, p) =>
             \A i \in 1..Len(hlast'.markup) :
                 (hlast'.markup[i][1] = "rdn" /\ PressedNext(m, hlast'.markup[i]).main = "dwn_put")
                     => IsNone(PressedNext(m, hlast'.markup[i]).pend.bitrate)]_vars

\* what markup_rnm does instead: the job carries the number 0.0
SubstitutedBitrate ==
    [][\A m \in MsgIds, p \in ForeignPayloads :
         RenameUnspecified(m, p) =>
             /\ \E i \in 1..Len(hlast'.markup) : hlast'.markup[i][1] = "rdn"
             /\ \A i \in 1..Len(hlast'.markup) :
                 hlast'.markup[i][1] = "rdn" =>
                     /\ PressedNext(m, hlast'.markup[i]).main = "dwn_put"
                     /\ PressedNext(m, hlast'.markup[i]).pend.bitrate = FloatV(0)]_vars

\* the author/title pairs the program stages for the media item info: the
\* metadata final of markup_fmt, and otherwise none (video, format screen)
\* or one of the guesses of the rename screen
StagedFor(info) ==
    IF from_metadata(info)
    THEN { <<Val(InfoChannel(info)), Val(InfoTitle(info))>> }
    ELSE { <<NoneV, NoneV>> }
         \cup { <<Val(guess_track_title(InfoTitle(info), InfoChannel(info))[i][1]),
                  Val(guess_track_title(InfoTitle(info), InfoChannel(info))[i][2])>> :
                i \in 1..Len(guess_track_title(InfoTitle(info), InfoChannel(info))) }

\* the step enqueues a Download job
Enqueued == Len(queue') = Len(queue) + 1 /\ queue'[Len(queue')].action = "download"

\* C36: the author and title carried by an enqueued Download job always
\* stem from the media item the job downloads, also when a Download or
\* RenameThenDownload is pressed on the older of two messages with screens.
C36_Original ==
    [][Enqueued =>
         LET job == queue'[Len(queue')]
         IN  <<job.author, job.title>>
                 \in StagedFor(cache_get(search_cache, job.extractor.val, job.id.val))]_vars

\* what the handlers do instead: the job carries the final names stored for
\* the chat, whichever message staged them
CarriesChatFinal ==
    [][Enqueued =>
         LET job == queue'[Len(queue')]
             author == database_get_data(temp_database, 1, <<"rename", "final", "author">>)
             title == database_get_data(temp_database, 1, <<"rename", "final", "title">>)
             names == database_get_data(temp_database, 1, <<"rename", "names">>)
         IN  \/ <<job.author, job.title>> = <<author, title>>
             \/ /\ ~IsNone(names)
                /\ \E i \in 1..Len(names.val) :
                     <<job.author, job.title>> = <<Val(names.val[i][1]), Val(names.val[i][2])>>]_vars

\* ---------------------------------------------------------------------
\* the worker has edited the target of the Download job with sequence number
\* seq: the "Sending file" progress edit (lines 217-223) or the final message
\* (lines 233-259) is out
WorkerSent(seq) ==
    /\ data.action = "download"
    /\ data.seq = seq
    /\ ~IsNone(data.edit_message_id)
    /\ \/ wpc = "final" /\ filepath
       \/ wpc \in {"cleanup", "except", "loop", "get", "ended"}

\* the final message of that job is on its target
FinalSent(seq) ==
    /\ WorkerSent(seq)
    /\ wpc \in {"cleanup", "loop", "get", "ended"}
    /\ wlast = FinalMessage(data, filepath, error_text)

\* C37: for every Download job the "download started" placeholder reaches
\* the job's message before any progress edit or final message of the worker
\* for that job, in every interleaving of the handler and the worker.
C37_Original == main = "dwn_notify" => ~WorkerSent(nextSeq - 1)

\* the placeholder edit never lands on a message that already shows the
\* final message of the job (part of C37; it does not hold either)
PlaceholderBeforeFinal == [][DwnNotify => ~FinalSent(nextSeq - 1)]_vars

\* ---------------------------------------------------------------------
\* the worker is between the first and the last of the three assignments
\* that store the result of a search of chat c (lines 162-172)
WorkerStoring(c) ==
    /\ wpc \in {"store_text", "store_markup", "store_id"}
    /\ data.chat_id = c

\* the message shows the result screen of one search with edit target m
OneSearchScreen(msg, m) ==
    \E results \in BackOutcomes :
        /\ msg.text = SearchText(results)
        /\ msg.markup = IF Len(results) # 0 THEN SearchButtons(IntV(m), results) ELSE <<>>

\* C38: a Back action that runs while the worker is storing the result of a
\* newer search of the same chat never renders a mixed screen: the text and
\* the buttons it restores on message M both belong to the search whose edit
\* target is M.
C38_Original ==
    [][ \A c \in SessionChats, m \in MsgIds :
          (WorkerStoring(c) /\ QueryCallback(c, m, SearchBackButton(m)) /\ hlast'.edit_message_id = IntV(m))
          => OneSearchScreen(hlast', m) ]_vars

\* with the worker outside the three assignments the restored screen is the
\* screen of one search
BackRestoresOneSearch ==
    [][ \A c \in SessionChats, m \in MsgIds :
          (~WorkerStoring(c) /\ QueryCallback(c, m, SearchBackButton(m)) /\ hlast'.edit_message_id = IntV(m))
          => OneSearchScreen(hlast', m) ]_vars

====
